---- MODULE Spec2Model ----
(***************************************************************************)
(* A model of ccu (sammcj/ccu): the session windower, the activity         *)
(* classifier, the depletion predictors, and the consumers of the         *)
(* externally reported 5-hour utilisation (API status document and TUI).   *)
(*                                                                         *)
(* Time is counted in whole seconds from an arbitrary instant that lies    *)
(* on a UTC hour boundary.  Money and percentages are integers (cents,     *)
(* percent points); every float comparison of the source is modelled by    *)
(* the exact rational comparison, cross-multiplied.                        *)
(***************************************************************************)
EXTENDS Integers, Sequences, FiniteSets, TLC

VARIABLES
    pc,             \* position of the pipeline: "input", "done", "marked", "loaded"
    now,            \* the wall clock handed to the time-dependent functions
    entries,        \* []models.UsageEntry, sorted ascending by Timestamp
    sessions,       \* []models.SessionBlock produced by the last refresh
    forecast,       \* the last result of an analysis function called on its
                    \* own (a forecast, a velocity, a limit), with its inputs
    m,              \* the remaining fields of app.AppModel
    resp,           \* the status document built at the current instant, if any
    view,           \* the dashboard rendered at the current instant, if any
    srv,            \* api.Server: mu, snapshot, snapshotAt, config, allowedNets
    upd,            \* the goroutines calling Server.UpdateSnapshot
    reqs,           \* the goroutines running Server.handleStatus
    cmds,           \* the load commands issued by Update and not yet delivered
    history         \* what the refresh cycles have done so far

vars == <<pc, now, entries, sessions, forecast, m, resp, view,
          srv, upd, reqs, cmds, history>>

\* the API server and its goroutines
srvVars == <<srv, upd, reqs>>

\* the background load commands
cmdVars == <<cmds, history>>

\* what the windower, the classifier and the predictors leave alone
appVars == <<m, resp, view>>

----------------------------------------------------------------------------
(* Units and bounds *)

Minute == 60
Hour == 60 * Minute

\* Timestamps of the model lie on a grid of SlotsPerHour points per hour.
SlotsPerHour == 2
Grain == Hour \div SlotsPerHour

\* Horizon of the windower's inputs, in hours, and the longest event list.
MaxHours == 12
MaxEvents == 3

\* Horizon and longest event list of the activity classifier's inputs.
MarkHours == 11
MarkEvents == 2

Times == {k * Grain : k \in 0..(MaxHours * SlotsPerHour)}
MarkTimes == {k * Grain : k \in 0..(MarkHours * SlotsPerHour)}

\* A nil pointer / absent optional value; a present one is <<v>>.
Nil == <<>>

\* time.Time{}, the zero instant: an unset timestamp, an undefined forecast
ZeroTime == -1

\* no refresh cycle has been issued yet
NoHistory ==
    [issued |-> 0, lastSuccess |-> ZeroTime, transient |-> FALSE,
     lastContact |-> ZeroTime]

\* A float64 that is the quotient of two integers: n / d with d > 0, in
\* lowest terms.
RECURSIVE GCD(_, _)
GCD(a, b) == IF b = 0 THEN a ELSE GCD(b, a % b)

Abs(x) == IF x < 0 THEN -x ELSE x

Rat(n, d) ==
    LET g == GCD(Abs(n), d)
    IN  [n |-> n \div g, d |-> d \div g]

Zero == [n |-> 0, d |-> 1]

RatAdd(a, b) == Rat(a.n * b.d + b.n * a.d, a.d * b.d)

\* a < b for rationals
RatLess(a, b) == a.n * b.d < b.n * a.d

----------------------------------------------------------------------------
(* internal/models: usage entries *)

\* UsageEntry.TotalTokens
TotalTokens(e) ==
    e.InputTokens + e.OutputTokens + e.CacheCreationTokens + e.CacheReadTokens

\* UsageEntry.DisplayTokens
DisplayTokens(e) == e.InputTokens + e.OutputTokens

\* The token and cost fields of an entry whose cost was logged (in cents)
LoggedUsage ==
    [InputTokens |-> 600, OutputTokens |-> 400, CacheCreationTokens |-> 0,
     CacheReadTokens |-> 2000, CostUSD |-> 500]

\* ... of an expensive one
LargeUsage ==
    [InputTokens |-> 3000, OutputTokens |-> 1000, CacheCreationTokens |-> 0,
     CacheReadTokens |-> 0, CostUSD |-> 3000]

\* ... and of one logged without a cost, to be priced from its tokens
UnpricedUsage ==
    [InputTokens |-> 10000, OutputTokens |-> 2000, CacheCreationTokens |-> 0,
     CacheReadTokens |-> 0, CostUSD |-> 0]

----------------------------------------------------------------------------
(* internal/analysis: the windower *)

SessionDuration == 5 * Hour
GapThreshold == SessionDuration

\* time.Time.Truncate(d) for an instant t
Truncate(t, d) == t - (t % d)

newSessionBlock(startTime) ==
    LET roundedStart == Truncate(startTime, Hour)
    IN  [ID            |-> <<"session", roundedStart>>,
         StartTime     |-> roundedStart,
         EndTime       |-> roundedStart + SessionDuration,
         ActualEndTime |-> Nil,
         Entries       |-> <<>>,
         TotalTokens   |-> 0,
         DisplayTokens |-> 0,
         CostUSD       |-> 0,
         CostBurnRate  |-> Zero,
         MessageCount  |-> 0,
         IsActive      |-> FALSE,
         IsGap         |-> FALSE]

\* createGapBlock ending the gap at the hour the next window opens
createGapBlockTruncated(start, end) ==
    [ID            |-> <<"gap", start>>,
     StartTime     |-> start,
     EndTime       |-> Truncate(end, Hour),
     ActualEndTime |-> Nil,
     Entries       |-> <<>>,
     TotalTokens   |-> 0,
     DisplayTokens |-> 0,
     CostUSD       |-> 0,
     CostBurnRate  |-> Zero,
     MessageCount  |-> 0,
     IsActive      |-> FALSE,
     IsGap         |-> TRUE]

\* createGapBlock rooted at the closed window's start instead of its end
createGapBlockEarly(start, end) ==
    [ID            |-> <<"gap", start>>,
     StartTime     |-> start - SessionDuration,
     EndTime       |-> end,
     ActualEndTime |-> Nil,
     Entries       |-> <<>>,
     TotalTokens   |-> 0,
     DisplayTokens |-> 0,
     CostUSD       |-> 0,
     CostBurnRate  |-> Zero,
     MessageCount  |-> 0,
     IsActive      |-> FALSE,
     IsGap         |-> TRUE]

createGapBlock(start, end) ==
    [ID            |-> <<"gap", start>>,
     StartTime     |-> start,
     EndTime       |-> end,
     ActualEndTime |-> Nil,
     Entries       |-> <<>>,
     TotalTokens   |-> 0,
     DisplayTokens |-> 0,
     CostUSD       |-> 0,
     CostBurnRate  |-> Zero,
     MessageCount  |-> 0,
     IsActive      |-> FALSE,
     IsGap         |-> TRUE]

\* AddEntry putting the entry in front of the list
AddEntryPrepend(sb, entry) ==
    [sb EXCEPT !.Entries = <<entry>> \o sb.Entries,
               !.TotalTokens = sb.TotalTokens + TotalTokens(entry),
               !.DisplayTokens = sb.DisplayTokens + DisplayTokens(entry),
               !.MessageCount = sb.MessageCount + 1]

\* SessionBlock.AddEntry: append and count the entry (the per-model
\* statistics are left out: every entry is of one model)
AddEntry(sb, entry) ==
    [sb EXCEPT !.Entries = Append(sb.Entries, entry),
               !.TotalTokens = sb.TotalTokens + TotalTokens(entry),
               !.DisplayTokens = sb.DisplayTokens + DisplayTokens(entry),
               !.MessageCount = sb.MessageCount + 1]

\* the fit test admitting an entry at the block's end itself
FitsCurrentBlockInclusive(entry, currentBlock) ==
    entry.Timestamp <= currentBlock.EndTime

\* entry.Timestamp.Before(currentBlock.EndTime)
FitsCurrentBlock(entry, currentBlock) == entry.Timestamp < currentBlock.EndTime

\* the gap test with >= in place of >
SignificantGapInclusive(entry, currentBlock) ==
    entry.Timestamp - currentBlock.EndTime >= GapThreshold

\* entry.Timestamp.Sub(currentBlock.EndTime) > GapThreshold
SignificantGap(entry, currentBlock) ==
    entry.Timestamp - currentBlock.EndTime > GapThreshold

\* The loop of CreateSessionBlocks from entry i on; currentBlock is Nil or <<block>>.
RECURSIVE BlocksLoop(_, _, _, _)
BlocksLoop(es, i, blocks, currentBlock) ==
    IF i > Len(es)
    THEN IF currentBlock # Nil THEN Append(blocks, currentBlock[1]) ELSE blocks
    ELSE LET entry == es[i]
             fresh == <<AddEntry(newSessionBlock(entry.Timestamp), entry)>>
         IN  IF currentBlock = Nil
             THEN BlocksLoop(es, i + 1, blocks, fresh)
             ELSE IF FitsCurrentBlock(entry, currentBlock[1])
                  THEN BlocksLoop(es, i + 1, blocks,
                                  <<AddEntry(currentBlock[1], entry)>>)
                  ELSE LET withGap ==
                               IF SignificantGap(entry, currentBlock[1])
                               THEN Append(blocks,
                                           createGapBlock(currentBlock[1].EndTime,
                                                          entry.Timestamp))
                               ELSE blocks
                       IN  BlocksLoop(es, i + 1,
                                      Append(withGap, currentBlock[1]), fresh)

CreateSessionBlocks(es) ==
    IF Len(es) = 0 THEN <<>> ELSE BlocksLoop(es, 1, <<>>, Nil)

----------------------------------------------------------------------------
(* internal/analysis: the activity classifier *)

\* the body of MarkActiveSessions' loop with now >= start in place of
\* now.After(start)
MarkBlockFromStart(b, t) ==
    IF b.IsGap THEN b
    ELSE LET active == t >= b.StartTime /\ t < b.EndTime
         IN  [b EXCEPT
                !.IsActive = active,
                !.ActualEndTime =
                    IF ~active /\ b.ActualEndTime = Nil /\ Len(b.Entries) > 0
                    THEN <<b.Entries[Len(b.Entries)].Timestamp>>
                    ELSE b.ActualEndTime]

\* the body of MarkActiveSessions' loop, for one block
MarkBlock(b, t) ==
    IF b.IsGap THEN b
    ELSE LET active == t > b.StartTime /\ t < b.EndTime
         IN  [b EXCEPT
                !.IsActive = active,
                !.ActualEndTime =
                    IF ~active /\ b.ActualEndTime = Nil /\ Len(b.Entries) > 0
                    THEN <<b.Entries[Len(b.Entries)].Timestamp>>
                    ELSE b.ActualEndTime]

MarkActiveSessions(blocks, t) == [i \in 1..Len(blocks) |-> MarkBlock(blocks[i], t)]

----------------------------------------------------------------------------
(* internal/models and internal/app: limits and the application model *)

\* models.PredefinedLimits, the cost limit in cents
PredefinedLimits ==
    [pro   |-> [PlanName |-> "Pro", TokenLimit |-> 0, CostLimitUSD |-> 1800,
                MessageLimit |-> 250],
     max5  |-> [PlanName |-> "Max5", TokenLimit |-> 0, CostLimitUSD |-> 3500,
                MessageLimit |-> 1000],
     max20 |-> [PlanName |-> "Max20", TokenLimit |-> 0, CostLimitUSD |-> 14000,
                MessageLimit |-> 2000]]

\* Config.GetEffectiveLimits for a custom plan configured with a token limit
\* and no cost limit
CustomLimits ==
    [PlanName |-> "Custom", TokenLimit |-> 100000, CostLimitUSD |-> 0,
     MessageLimit |-> 0]

\* app.NewModel: the fields of AppModel read or written by the data-loaded
\* handler, the status document and the dashboard
NewModel(limits) ==
    [limits           |-> limits,
     oauthData        |-> Nil,
     oauthDisabled    |-> FALSE,
     oauthErrorLogged |-> FALSE,
     entries          |-> <<>>,
     currentSession   |-> Nil,
     loading          |-> TRUE,
     err              |-> FALSE,
     lastRefresh      |-> ZeroTime,
     lastOAuthFetch   |-> ZeroTime,
     lastWeeklyFetch  |-> ZeroTime,
     lastTickTime     |-> ZeroTime,
     forceRefresh     |-> FALSE,
     oauthEnabled     |-> FALSE,
     refreshRate      |-> 30,
     lastManualRefresh      |-> ZeroTime,
     manualRefreshCount     |-> 0,
     rateLimitWarning       |-> Nil,
     rateLimitWarningExpiry |-> ZeroTime]

----------------------------------------------------------------------------
(* The windower applied to every sorted event list *)

LastTimestamp == IF Len(entries) = 0 THEN 0 ELSE entries[Len(entries)].Timestamp

\* The ingestion collaborator hands over one more event, in timestamp order.
LogEvent(t, usage, maxLen) ==
    /\ pc = "input"
    /\ Len(entries) < maxLen
    /\ t >= LastTimestamp
    /\ entries' = Append(entries,
                         [id                  |-> Len(entries) + 1,
                          Timestamp           |-> t,
                          InputTokens         |-> usage.InputTokens,
                          OutputTokens        |-> usage.OutputTokens,
                          CacheCreationTokens |-> usage.CacheCreationTokens,
                          CacheReadTokens     |-> usage.CacheReadTokens,
                          CostUSD             |-> usage.CostUSD])
    /\ UNCHANGED <<srvVars, cmdVars, pc, now, sessions, forecast, appVars>>

\* sessions := CreateSessionBlocks(entries)
Window ==
    /\ pc = "input"
    /\ sessions' = CreateSessionBlocks(entries)
    /\ pc' = "done"
    /\ UNCHANGED <<srvVars, cmdVars, now, entries, forecast, appVars>>

InitWindower ==
    /\ srv = Nil
    /\ upd = Nil
    /\ reqs = Nil
    /\ cmds = <<>>
    /\ history = NoHistory
    /\ pc = "input"
    /\ now = 0
    /\ entries = <<>>
    /\ sessions = <<>>
    /\ forecast = Nil
    /\ m = NewModel(PredefinedLimits.max5)
    /\ resp = Nil
    /\ view = Nil

NextWindower ==
    \/ \E t \in Times : LogEvent(t, LoggedUsage, MaxEvents)
    \/ Window

SpecWindower == InitWindower /\ [][NextWindower]_vars

----------------------------------------------------------------------------
(* Properties of the windower *)

NonGap(blocks) == SelectSeq(blocks, LAMBDA b : ~b.IsGap)
GapBlocks(blocks) == SelectSeq(blocks, LAMBDA b : b.IsGap)

RECURSIVE ConcatEntries(_)
ConcatEntries(blocks) ==
    IF blocks = <<>> THEN <<>>
    ELSE Head(blocks).Entries \o ConcatEntries(Tail(blocks))

\* the indices of the non-gap windows that hold entry e
Holders(e) ==
    {i \in 1..Len(sessions) :
        /\ ~sessions[i].IsGap
        /\ \E j \in 1..Len(sessions[i].Entries) : sessions[i].Entries[j] = e}

\* C1: for every sorted event list, each event lies in exactly one non-gap
\* window, and the non-gap windows' event lists, concatenated in output
\* order, are the input list: nothing lost, duplicated or reordered.
C1_PartitionExact ==
    pc = "done" =>
        /\ ConcatEntries(NonGap(sessions)) = entries
        /\ \A k \in 1..Len(entries) : Cardinality(Holders(entries[k])) = 1
        /\ \A i \in 1..Len(sessions) : sessions[i].IsGap => sessions[i].Entries = <<>>

C1_Witness ==
    /\ pc = "done"
    /\ Len(entries) = 3
    /\ Len(NonGap(sessions)) = 2
    /\ Len(GapBlocks(sessions)) = 1
    /\ Len(NonGap(sessions)[1].Entries) = 2

TwoEvents == pc = "done" /\ Len(entries) = 2
Apart(h) == entries[2].Timestamp - entries[1].Timestamp = h * Hour

\* exactly one gap window, spanning [first window's end, second event's timestamp)
OneGapSpanning ==
    /\ Len(GapBlocks(sessions)) = 1
    /\ GapBlocks(sessions)[1].StartTime = NonGap(sessions)[1].EndTime
    /\ GapBlocks(sessions)[1].EndTime = entries[2].Timestamp

\* C2 as stated: two events 6 hours apart give exactly one gap window
\* [first window's end, second timestamp); two events 4 hours apart give none.
C2_Original ==
    TwoEvents =>
        /\ Apart(6) => OneGapSpanning
        /\ Apart(4) => Len(GapBlocks(sessions)) = 0

\* C2 amended: the gap is measured from the first window's end, so two events
\* 11 hours apart give exactly one gap window [first window's end, second
\* timestamp), while two events 6 hours apart, like two events 4 hours apart,
\* give no gap window.
C2_GapFromWindowEnd ==
    TwoEvents =>
        /\ Apart(11) => OneGapSpanning
        /\ (Apart(6) \/ Apart(4)) => Len(GapBlocks(sessions)) = 0

C2_Witness ==
    /\ TwoEvents
    /\ Apart(11)
    /\ OneGapSpanning
    /\ entries[2].Timestamp % Hour # 0

\* [a.StartTime, a.EndTime) and [b.StartTime, b.EndTime) share no instant
Disjoint(a, b) == a.EndTime <= b.StartTime \/ b.EndTime <= a.StartTime

NoEventInGap ==
    \A i \in 1..Len(sessions) :
        sessions[i].IsGap =>
            \A k \in 1..Len(entries) :
                ~(/\ sessions[i].StartTime <= entries[k].Timestamp
                  /\ entries[k].Timestamp < sessions[i].EndTime)

\* w is the window opened by the event that ended gap g
OpenedAfter(g, w) ==
    g.IsGap /\ ~w.IsGap /\ w.Entries # <<>> /\ w.Entries[1].Timestamp = g.EndTime

\* C3 as stated: all windows, gap and non-gap, are pairwise disjoint, and no
\* event's timestamp lies inside a gap window.
C3_Original ==
    pc = "done" =>
        /\ \A i, j \in 1..Len(sessions) :
               i # j => Disjoint(sessions[i], sessions[j])
        /\ NoEventInGap

\* C3 amended: all windows are pairwise disjoint except a gap window and the
\* window opened immediately after it: that window starts at the gap's end
\* floored to the hour, so the two overlap on [floor(end), end), less than an
\* hour; and no event's timestamp lies inside a gap window.
C3_DisjointButGapTail ==
    pc = "done" =>
        /\ \A i, j \in 1..Len(sessions) :
               i # j =>
                   \/ Disjoint(sessions[i], sessions[j])
                   \/ OpenedAfter(sessions[i], sessions[j])
                   \/ OpenedAfter(sessions[j], sessions[i])
        /\ \A i, j \in 1..Len(sessions) :
               OpenedAfter(sessions[i], sessions[j]) =>
                   /\ sessions[i].StartTime < sessions[j].StartTime
                   /\ sessions[j].StartTime = Truncate(sessions[i].EndTime, Hour)
                   /\ sessions[i].EndTime - sessions[j].StartTime < Hour
        /\ NoEventInGap

C3_Witness ==
    /\ pc = "done"
    /\ \E i, j \in 1..Len(sessions) :
           /\ OpenedAfter(sessions[i], sessions[j])
           /\ ~Disjoint(sessions[i], sessions[j])

\* the window closed by an event and the one the event opened, for each
\* event that arrived at or after the current window's end
Handovers == 1..(Len(NonGap(sessions)) - 1)
Closed(k) == NonGap(sessions)[k]
Arrival(k) == NonGap(sessions)[k + 1].Entries[1]
Silence(k) == Arrival(k).Timestamp - Closed(k).EndTime

GapEmitted(k) ==
    \E i \in 1..Len(sessions) :
        /\ sessions[i].IsGap
        /\ sessions[i].StartTime = Closed(k).EndTime
        /\ sessions[i].EndTime = Arrival(k).Timestamp

\* C4: when an event arrives at or after the current window's end, a gap
\* window is emitted iff event.timestamp - window.end > 5 hours, strictly:
\* a difference of exactly 5 hours emits none.
C4_StrictGapTest ==
    pc = "done" =>
        /\ \A k \in Handovers :
               /\ Silence(k) >= 0
               /\ GapEmitted(k) <=> Silence(k) > 5 * Hour
        /\ Len(GapBlocks(sessions)) =
               Cardinality({k \in Handovers : Silence(k) > 5 * Hour})

C4_Witness ==
    /\ pc = "done"
    /\ \E k \in Handovers : Silence(k) = 5 * Hour /\ ~GapEmitted(k)
    /\ Len(GapBlocks(sessions)) = 0

----------------------------------------------------------------------------
(* The activity classifier applied to the windower's output, then again to *)
(* the same windows as the clock moves on                                  *)

\* now := time.Now(); sessions := MarkActiveSessions(CreateSessionBlocks(entries), now).
\* The clock is not behind the events already logged.
Classify(t) ==
    /\ pc = "input"
    /\ t >= LastTimestamp
    /\ now' = t
    /\ sessions' = MarkActiveSessions(CreateSessionBlocks(entries), t)
    /\ pc' = "marked"
    /\ UNCHANGED <<srvVars, cmdVars, entries, forecast, appVars>>

\* MarkActiveSessions(sessions, t) on the windows already classified, t >= now
Reclassify(t) ==
    /\ pc = "marked"
    /\ t >= now
    /\ now' = t
    /\ sessions' = MarkActiveSessions(sessions, t)
    /\ UNCHANGED <<srvVars, cmdVars, pc, entries, forecast, appVars>>

NextMark ==
    \/ \E t \in MarkTimes : LogEvent(t, LoggedUsage, MarkEvents)
    \/ \E t \in MarkTimes : Classify(t)
    \/ \E t \in MarkTimes : Reclassify(t)

SpecMark == InitWindower /\ [][NextMark]_vars

\* C10: across successive classifications of the same windows with
\* non-decreasing now, a window's actualEnd, once set, never changes, and a
\* window that has actualEnd set is not marked active afterwards.
C10_ForwardOnly ==
    [][(pc = "marked" /\ pc' = "marked") =>
          \A i \in 1..Len(sessions) :
              sessions[i].ActualEndTime # Nil =>
                  /\ sessions'[i].ActualEndTime = sessions[i].ActualEndTime
                  /\ ~sessions'[i].IsActive]_vars

\* the half of C10 the code keeps: actualEnd is assigned at most once
ActualEndFrozen ==
    [][(pc = "marked" /\ pc' = "marked") =>
          \A i \in 1..Len(sessions) :
              sessions[i].ActualEndTime # Nil =>
                  sessions'[i].ActualEndTime = sessions[i].ActualEndTime]_vars

----------------------------------------------------------------------------
(* internal/analysis: the depletion predictors *)

Day == 24 * Hour

\* float64 -> time.Duration conversion of a positive quotient a / b: the
\* fraction is dropped
Trunc(a, b) == a \div b

\* PredictCostDepletion(costBurnRate, costRemaining, currentTime); the burn
\* rate is the rational rate.n / rate.d per minute, with rate.d > 0.  The
\* quotient is converted to a Duration before it is scaled by time.Minute.
PredictCostDepletion(rate, costRemaining, currentTime) ==
    IF rate.n <= 0 \/ costRemaining <= 0
    THEN ZeroTime
    ELSE currentTime + Trunc(costRemaining * rate.d, rate.n) * Minute

\* PredictTokenDepletion(tokenBurnRate, tokensRemaining, currentTime)
PredictTokenDepletion(rate, tokensRemaining, currentTime) ==
    IF rate.n <= 0 \/ tokensRemaining <= 0
    THEN ZeroTime
    ELSE currentTime + Trunc(tokensRemaining * rate.d, rate.n) * Minute

\* PredictWeeklyDepletion with the 24-hour guard left out
PredictWeeklyDepletionUnguarded(sevenDay, t) ==
    LET undefined == [DepletionTime |-> ZeroTime, ResetTime |-> ZeroTime,
                      WillHitLimit |-> FALSE, Utilisation |-> sevenDay.Utilisation]
    IN  IF sevenDay.ResetsAt = Nil THEN undefined
        ELSE LET resetTime == sevenDay.ResetsAt[1]
                 elapsed == t - (resetTime - 7 * Day)
                 depletion == t + Trunc((100 - sevenDay.Utilisation) * elapsed,
                                        sevenDay.Utilisation)
             IN  IF sevenDay.Utilisation >= 100
                 THEN [undefined EXCEPT !.ResetTime = resetTime,
                                        !.WillHitLimit = TRUE,
                                        !.DepletionTime = t]
                 ELSE IF elapsed <= 0 \/ sevenDay.Utilisation <= 0
                 THEN [undefined EXCEPT !.ResetTime = resetTime]
                 ELSE [undefined EXCEPT !.ResetTime = resetTime,
                                        !.DepletionTime = depletion,
                                        !.WillHitLimit = depletion < resetTime]

\* PredictWeeklyDepletion(oauthData, _, _, now) on oauthData.SevenDay; an
\* unparseable ResetsAt is Nil.  hoursElapsed is elapsed / Hour, and the
\* weekly burn rate Utilisation / hoursElapsed is <= 0 iff Utilisation <= 0.
PredictWeeklyDepletion(sevenDay, t) ==
    LET undefined == [DepletionTime |-> ZeroTime, ResetTime |-> ZeroTime,
                      WillHitLimit |-> FALSE, Utilisation |-> sevenDay.Utilisation]
    IN  IF sevenDay.ResetsAt = Nil THEN undefined
        ELSE LET resetTime == sevenDay.ResetsAt[1]
                 weekStart == resetTime - 7 * Day
                 elapsed == t - weekStart
                 depletion == t + Trunc((100 - sevenDay.Utilisation) * elapsed,
                                        sevenDay.Utilisation)
             IN  IF sevenDay.Utilisation >= 100
                 THEN [undefined EXCEPT !.ResetTime = resetTime,
                                        !.WillHitLimit = TRUE,
                                        !.DepletionTime = t]
                 ELSE IF elapsed <= 0
                 THEN [undefined EXCEPT !.ResetTime = resetTime]
                 ELSE IF elapsed < 24 * Hour
                 THEN [undefined EXCEPT !.ResetTime = resetTime]
                 ELSE IF sevenDay.Utilisation <= 0
                 THEN [undefined EXCEPT !.ResetTime = resetTime]
                 ELSE [undefined EXCEPT !.ResetTime = resetTime,
                                        !.DepletionTime = depletion,
                                        !.WillHitLimit = depletion < resetTime]

----------------------------------------------------------------------------
(* The predictors applied to bounded inputs *)

\* burn rates -1/d .. MaxRate/d per minute, budgets -1 .. MaxRemaining
MaxRate == 10
MaxRemaining == 50
MaxRateDenominator == 2
Rates == [n : -1..MaxRate, d : 1..MaxRateDenominator]
Budgets == -1..MaxRemaining

\* the weekly clock runs on a grid of WeekGrain up to MaxWeekSlots points
MaxWeekSlots == 32
WeekGrain == 6 * Hour
WeekTimes == {k * WeekGrain : k \in 0..MaxWeekSlots}
WeekResets == {Nil, <<7 * Day>>, <<7 * Day + 2 * WeekGrain>>}
Utilisations == {0, 1, 11, 50, 99, 100, 120}

CallPredictCost(rate, remaining, t) ==
    /\ pc = "input"
    /\ forecast' = <<[fn |-> "cost", rate |-> rate, remaining |-> remaining,
                      at |-> PredictCostDepletion(rate, remaining, t)]>>
    /\ now' = t
    /\ pc' = "done"
    /\ UNCHANGED <<srvVars, cmdVars, entries, sessions, appVars>>

CallPredictToken(rate, remaining, t) ==
    /\ pc = "input"
    /\ forecast' = <<[fn |-> "token", rate |-> rate, remaining |-> remaining,
                      at |-> PredictTokenDepletion(rate, remaining, t)]>>
    /\ now' = t
    /\ pc' = "done"
    /\ UNCHANGED <<srvVars, cmdVars, entries, sessions, appVars>>

CallPredictWeekly(sevenDay, t) ==
    /\ pc = "input"
    /\ forecast' = <<[fn |-> "weekly", sevenDay |-> sevenDay,
                      prediction |-> PredictWeeklyDepletion(sevenDay, t)]>>
    /\ now' = t
    /\ pc' = "done"
    /\ UNCHANGED <<srvVars, cmdVars, entries, sessions, appVars>>

NextDepletion ==
    \/ \E rate \in Rates, remaining \in Budgets, t \in {0, Grain} :
           CallPredictCost(rate, remaining, t)
    \/ \E rate \in Rates, remaining \in Budgets, t \in {0, Grain} :
           CallPredictToken(rate, remaining, t)
    \/ \E u \in Utilisations, r \in WeekResets, t \in WeekTimes :
           CallPredictWeekly([Utilisation |-> u, ResetsAt |-> r], t)

SpecDepletion == InitWindower /\ [][NextDepletion]_vars

Weekly == forecast[1].prediction
WeeklyCalled == pc = "done" /\ forecast # Nil /\ forecast[1].fn = "weekly"

\* the weekly window start, resetsAt - 7 days, is known and less than 24
\* hours before now
EarlyInWeek ==
    /\ WeeklyCalled
    /\ forecast[1].sevenDay.ResetsAt # Nil
    /\ now - (forecast[1].sevenDay.ResetsAt[1] - 7 * Day) < 24 * Hour

WeeklyUndefined == Weekly.DepletionTime = ZeroTime /\ ~Weekly.WillHitLimit

\* C5 as stated: with less than 24 hours elapsed since the weekly window
\* start, the weekly forecast is undefined for every utilisation value.
C5_Original == EarlyInWeek => WeeklyUndefined

\* C5 amended: with less than 24 hours elapsed since the weekly window start,
\* the weekly forecast is undefined for every utilisation below 100; at 100
\* or above it is depletion = now with will-hit-limit true, whatever the
\* elapsed time.
C5_UndefinedBelowLimit ==
    /\ EarlyInWeek /\ forecast[1].sevenDay.Utilisation < 100 => WeeklyUndefined
    /\ WeeklyCalled /\ forecast[1].sevenDay.ResetsAt # Nil
           /\ forecast[1].sevenDay.Utilisation >= 100
         => Weekly.DepletionTime = now /\ Weekly.WillHitLimit

\* a positive utilisation below 100, 18 hours into the week: only the guard
\* keeps the forecast undefined
C5_Witness ==
    /\ EarlyInWeek
    /\ forecast[1].sevenDay.Utilisation = 50
    /\ now - (forecast[1].sevenDay.ResetsAt[1] - 7 * Day) = 18 * Hour
    /\ WeeklyUndefined

ShortCalled == pc = "done" /\ forecast # Nil /\ forecast[1].fn \in {"cost", "token"}

\* |at - (now + remaining / rate minutes)| <= 1 second, multiplied out by
\* the positive rate.n
WithinOneSecond(f) ==
    LET off == (f.at - now) * f.rate.n - f.remaining * f.rate.d * Minute
    IN  off <= f.rate.n /\ -off <= f.rate.n

\* C6: both short-budget predictors return the zero instant iff velocity <= 0
\* or remaining <= 0, and otherwise now + remaining / velocity minutes to
\* within one second.
C6_ExactEta ==
    ShortCalled =>
        LET f == forecast[1]
        IN  /\ f.at = ZeroTime <=> (f.rate.n <= 0 \/ f.remaining <= 0)
            /\ (f.rate.n > 0 /\ f.remaining > 0) => WithinOneSecond(f)

\* the half of C6 the code keeps, and what it returns instead of the eta
C6_WholeMinutes ==
    ShortCalled =>
        LET f == forecast[1]
        IN  /\ f.at = ZeroTime <=> (f.rate.n <= 0 \/ f.remaining <= 0)
            /\ (f.rate.n > 0 /\ f.remaining > 0) =>
                   /\ (f.at - now) % Minute = 0
                   /\ (f.at - now) * f.rate.n <= f.remaining * f.rate.d * Minute
                   /\ f.remaining * f.rate.d * Minute < (f.at - now + Minute) * f.rate.n

----------------------------------------------------------------------------
(* internal/models and internal/analysis: durations, costs and burn rates *)

\* SessionBlock.Duration
Duration(sb) ==
    IF sb.ActualEndTime # Nil
    THEN sb.ActualEndTime[1] - sb.StartTime
    ELSE sb.EndTime - sb.StartTime

\* SessionBlock.ElapsedDuration
ElapsedDuration(sb, t) ==
    IF t > sb.EndTime THEN Duration(sb)
    ELSE IF t < sb.StartTime THEN 0
    ELSE t - sb.StartTime

\* SessionBlock.RemainingDuration
RemainingDuration(sb, t) ==
    IF t > sb.EndTime THEN 0
    ELSE IF t < sb.StartTime THEN Duration(sb)
    ELSE sb.EndTime - t

\* SessionBlock.Progress, a percentage
Progress(sb, t) ==
    LET elapsed == ElapsedDuration(sb, t)
        total == Duration(sb)
    IN  IF total = 0 THEN Zero
        ELSE IF elapsed * 100 > 100 * total THEN Rat(100, 1)
        ELSE Rat(elapsed * 100, total)

\* pricing.CalculateCost in cents, at the default (Sonnet) rates of 3.00,
\* 15.00, 3.75 and 0.30 USD per million tokens; the unpriced entries of the
\* model carry token counts whose cost is a whole number of cents
CalculateCost(entry) ==
    (entry.InputTokens * 300 + entry.OutputTokens * 1500
       + entry.CacheCreationTokens * 375 + entry.CacheReadTokens * 30)
    \div 1000000

EntryCost(entry) ==
    IF entry.CostUSD > 0 THEN entry.CostUSD ELSE CalculateCost(entry)

RECURSIVE SumCost(_)
SumCost(es) == IF es = <<>> THEN 0 ELSE EntryCost(Head(es)) + SumCost(Tail(es))

\* CalculateSessionCost
CalculateSessionCost(block) == SumCost(block.Entries)

\* CalculateCostBurnRate, in cents per minute
CalculateCostBurnRate(block, t) ==
    LET elapsed == ElapsedDuration(block, t)
    IN  IF elapsed = 0 THEN Zero
        ELSE Rat(SumCost(block.Entries) * Minute, elapsed)

\* UpdateSessionCosts, reading the clock at t
UpdateSessionCosts(blocks, t) ==
    [i \in 1..Len(blocks) |->
        IF blocks[i].IsGap THEN blocks[i]
        ELSE [blocks[i] EXCEPT
                 !.CostUSD = CalculateSessionCost(blocks[i]),
                 !.CostBurnRate = CalculateCostBurnRate(blocks[i], t)]]

\* ProportionInHour with the two interval starts exchanged: the overlap is
\* measured from the block's start and the total from the lookback boundary
ProportionInHourSwapped(block, t) ==
    LET oneHourAgo == t - Hour
        sessionEnd == IF ~block.IsActive /\ block.ActualEndTime # Nil
                      THEN block.ActualEndTime[1]
                      ELSE IF ~block.IsActive THEN block.EndTime
                      ELSE t
        sessionStartInHour == IF oneHourAgo > block.StartTime
                              THEN oneHourAgo ELSE block.StartTime
        sessionEndInHour == IF t < sessionEnd THEN t ELSE sessionEnd
        totalSessionDuration == sessionEnd - sessionStartInHour
        hourDuration == sessionEndInHour - block.StartTime
    IN  IF block.IsGap THEN Nil
        ELSE IF sessionEnd < oneHourAgo THEN Nil
        ELSE IF block.StartTime > t THEN Nil
        ELSE IF sessionEndInHour < sessionStartInHour THEN Nil
        ELSE IF totalSessionDuration > 0
        THEN <<Rat(hourDuration, totalSessionDuration)>>
        ELSE Nil

\* The loop body shared by CalculateBurnRate and
\* calculateCostBurnRateFromSessions: the proportion of the block that lies
\* in the hour before t, or Nil when the block is skipped
ProportionInHour(block, t) ==
    LET oneHourAgo == t - Hour
        sessionEnd == IF ~block.IsActive /\ block.ActualEndTime # Nil
                      THEN block.ActualEndTime[1]
                      ELSE IF ~block.IsActive THEN block.EndTime
                      ELSE t
        sessionStartInHour == IF oneHourAgo > block.StartTime
                              THEN oneHourAgo ELSE block.StartTime
        sessionEndInHour == IF t < sessionEnd THEN t ELSE sessionEnd
        totalSessionDuration == sessionEnd - block.StartTime
        hourDuration == sessionEndInHour - sessionStartInHour
    IN  IF block.IsGap THEN Nil
        ELSE IF sessionEnd < oneHourAgo THEN Nil
        ELSE IF block.StartTime > t THEN Nil
        ELSE IF sessionEndInHour < sessionStartInHour THEN Nil
        ELSE IF totalSessionDuration > 0
        THEN <<Rat(hourDuration, totalSessionDuration)>>
        ELSE Nil

RECURSIVE SumInHour(_, _, _, _)
SumInHour(blocks, i, t, cost) ==
    IF i > Len(blocks) THEN Zero
    ELSE LET proportion == ProportionInHour(blocks[i], t)
             amount == IF cost THEN blocks[i].CostUSD ELSE blocks[i].DisplayTokens
             rest == SumInHour(blocks, i + 1, t, cost)
         IN  IF proportion = Nil THEN rest
             ELSE RatAdd(Rat(amount * proportion[1].n, proportion[1].d), rest)

\* CalculateBurnRate, in tokens per minute
CalculateBurnRate(blocks, t) ==
    LET totalTokens == SumInHour(blocks, 1, t, FALSE)
    IN  Rat(totalTokens.n, totalTokens.d * 60)

\* calculateCostBurnRateFromSessions, in cents per minute
calculateCostBurnRateFromSessions(blocks, t) ==
    LET totalCost == SumInHour(blocks, 1, t, TRUE)
    IN  Rat(totalCost.n, totalCost.d * 60)

----------------------------------------------------------------------------
(* The staleness test on the externally reported 5-hour utilisation.  The   *)
(* source carries one copy of it in each consumer; each copy is modelled    *)
(* where its consumer is.  The usage API delivers RFC3339 reset timestamps, *)
(* so FiveHour.ResetsAt is always a parsed instant here.                    *)

\* maxReasonable := (elapsed.Hours() / 5.0) * 100, floored at 1
MaxReasonablePercent(elapsed) ==
    LET maxReasonable == Rat(elapsed * 100, 5 * Hour)
    IN  IF RatLess(maxReasonable, Rat(1, 1)) THEN Rat(1, 1) ELSE maxReasonable

Twice(r) == Rat(2 * r.n, r.d)

----------------------------------------------------------------------------
(* internal/api: the status document *)

\* the clamp of buildSessionSection with >= in place of >
ClampStaleInclusive(utilisationPct, fiveHour, t) ==
    IF fiveHour.ResetsAt[1] > t THEN utilisationPct
    ELSE IF ~RatLess(utilisationPct,
                     Twice(MaxReasonablePercent(t - fiveHour.ResetsAt[1])))
    THEN Zero
    ELSE utilisationPct

\* the clamp of buildSessionSection
ClampStale(utilisationPct, fiveHour, t) ==
    IF fiveHour.ResetsAt[1] > t THEN utilisationPct
    ELSE IF RatLess(Twice(MaxReasonablePercent(t - fiveHour.ResetsAt[1])),
                    utilisationPct)
    THEN Zero
    ELSE utilisationPct

Max(a, b) == IF a > b THEN a ELSE b

\* buildWeeklySection; the snapshots of the model carry no per-tier data, so
\* the Sonnet and Opus sections are absent
buildWeeklySection(oauthData, t) ==
    [AllModels |->
        IF oauthData.SevenDay.ResetsAt = Nil THEN Nil
        ELSE <<[UtilisationPct  |-> oauthData.SevenDay.Utilisation,
                ResetsAt        |-> oauthData.SevenDay.ResetsAt[1],
                ResetsInSeconds |-> Max(0, oauthData.SevenDay.ResetsAt[1] - t)]>>,
     Sonnet |-> Nil,
     Opus   |-> Nil]

\* buildSessionSection with the cost fallback taken out
buildSessionSectionNoFallback(session, limits, oauthData, t) ==
    LET utilisationPct ==
            IF oauthData # Nil
            THEN ClampStale(Rat(oauthData[1].FiveHour.Utilisation, 1),
                            oauthData[1].FiveHour, t)
            ELSE Zero
        remainingSeconds == Max(0, RemainingDuration(session, t))
        progress == Progress(session, t)
    IN  [UtilisationPct   |-> utilisationPct,
         ResetsAt         |-> session.EndTime,
         ResetsInSeconds  |-> remainingSeconds,
         ElapsedSeconds   |-> ElapsedDuration(session, t),
         TotalSeconds     |-> Duration(session),
         RemainingSeconds |-> remainingSeconds,
         RemainingPct     |-> IF Duration(session) > 0
                              THEN Rat(100 * progress.d - progress.n, progress.d)
                              ELSE Zero,
         CostUSD          |-> session.CostUSD,
         MessageCount     |-> session.MessageCount]

\* buildSessionSection (the model distribution is left out: every entry is
\* of one model)
buildSessionSection(session, limits, oauthData, t) ==
    LET utilisationPct ==
            IF oauthData # Nil
            THEN ClampStale(Rat(oauthData[1].FiveHour.Utilisation, 1),
                            oauthData[1].FiveHour, t)
            ELSE IF limits.CostLimitUSD > 0
            THEN Rat(session.CostUSD * 100, limits.CostLimitUSD)
            ELSE Zero
        remainingSeconds == Max(0, RemainingDuration(session, t))
        progress == Progress(session, t)
    IN  [UtilisationPct   |-> utilisationPct,
         ResetsAt         |-> session.EndTime,
         ResetsInSeconds  |-> remainingSeconds,
         ElapsedSeconds   |-> ElapsedDuration(session, t),
         TotalSeconds     |-> Duration(session),
         RemainingSeconds |-> remainingSeconds,
         RemainingPct     |-> IF Duration(session) > 0
                              THEN Rat(100 * progress.d - progress.n, progress.d)
                              ELSE Zero,
         CostUSD          |-> session.CostUSD,
         MessageCount     |-> session.MessageCount]

\* buildBurnRateSection
buildBurnRateSection(currentSession, blocks, t) ==
    LET costPerMin == IF currentSession # Nil /\ ~currentSession[1].IsGap
                      THEN currentSession[1].CostBurnRate
                      ELSE Zero
    IN  [TokensPerMin   |-> CalculateBurnRate(blocks, t),
         CostPerMinUSD  |-> costPerMin,
         CostPerHourUSD |-> Rat(costPerMin.n * 60, costPerMin.d)]

\* buildPredictionSection
buildPredictionSection(currentSession, oauthData, limits, t) ==
    LET hasRate == /\ currentSession # Nil
                   /\ ~currentSession[1].IsGap
                   /\ currentSession[1].CostBurnRate.n > 0
                   /\ limits.CostLimitUSD > 0
        costRemaining == limits.CostLimitUSD - currentSession[1].CostUSD
        depletionTime == IF hasRate /\ costRemaining > 0
                         THEN PredictCostDepletion(currentSession[1].CostBurnRate,
                                                   costRemaining, t)
                         ELSE ZeroTime
        weeklyPred == PredictWeeklyDepletion(oauthData[1].SevenDay, t)
        weeklyAt == IF oauthData # Nil THEN weeklyPred.DepletionTime ELSE ZeroTime
    IN  [SessionLimitAt        |-> IF depletionTime # ZeroTime
                                   THEN <<depletionTime>> ELSE Nil,
         SessionLimitInSeconds |-> IF depletionTime # ZeroTime
                                   THEN <<Max(0, depletionTime - t)>> ELSE Nil,
         SessionWillHitLimit   |-> /\ depletionTime # ZeroTime
                                   /\ depletionTime < currentSession[1].EndTime,
         WeeklyLimitAt         |-> IF weeklyAt # ZeroTime
                                   THEN <<weeklyAt>> ELSE Nil,
         WeeklyLimitInSeconds  |-> IF weeklyAt # ZeroTime
                                   THEN <<Max(0, weeklyAt - t)>> ELSE Nil,
         WeeklyWillHitLimit    |-> oauthData # Nil /\ weeklyPred.WillHitLimit]

\* BuildStatusResponse over the state the provider exposes
BuildStatusResponse(state, blocks, t) ==
    [Plan           |-> state.limits.PlanName,
     ServerTime     |-> t,
     DataAgeSeconds |-> t - state.lastRefresh,
     Weekly         |-> IF state.oauthData # Nil
                        THEN <<buildWeeklySection(state.oauthData[1], t)>>
                        ELSE Nil,
     Session        |-> IF state.currentSession # Nil /\ ~state.currentSession[1].IsGap
                        THEN <<buildSessionSection(state.currentSession[1],
                                                   state.limits, state.oauthData, t)>>
                        ELSE Nil,
     BurnRate       |-> <<buildBurnRateSection(state.currentSession, blocks, t)>>,
     Prediction     |-> <<buildPredictionSection(state.currentSession,
                                                 state.oauthData, state.limits, t)>>]

----------------------------------------------------------------------------
(* internal/ui: the dashboard *)

\* the reset time the dashboard shows: moved on by five hours once passed
ShownResetTime(fiveHour, t) ==
    IF fiveHour.ResetsAt[1] > t
    THEN fiveHour.ResetsAt[1]
    ELSE fiveHour.ResetsAt[1] + 5 * Hour

\* renderSessionMetricsFromOAuth
renderSessionMetricsFromOAuth(oauthData, t) ==
    LET sessionJustRolledOver == ~(oauthData.FiveHour.ResetsAt[1] > t)
        resetTime == ShownResetTime(oauthData.FiveHour, t)
        reported == Rat(oauthData.FiveHour.Utilisation, 1)
        sessionStart == resetTime - 5 * Hour
        stale == /\ sessionJustRolledOver
                 /\ RatLess(Twice(MaxReasonablePercent(t - sessionStart)), reported)
        remaining == Max(0, resetTime - t)
    IN  [Percent             |-> IF stale THEN Zero ELSE reported,
         DistributionCleared |-> stale,
         ResetTime           |-> resetTime,
         RemainingPercent    |-> IF remaining > 5 * Hour THEN Rat(100, 1)
                                 ELSE Rat(remaining * 100, 5 * Hour)]

\* renderSessionFallback
renderSessionFallback(session, t) ==
    [CostUSD      |-> session.CostUSD,
     MessageCount |-> session.MessageCount,
     Remaining    |-> RemainingDuration(session, t),
     Previous     |-> RemainingDuration(session, t) <= 0 /\ session.EndTime < t,
     Notice       |-> "usage percentages unavailable"]

\* the session part of renderPredictionWithOAuth
SessionPart(utilisationPercent, session, resetTime, t) ==
    LET resets == [Kind |-> "resets", At |-> resetTime]
        elapsed == t - (resetTime - 5 * Hour)
        \* minutesToDepletion as the quotient toGo / rate of seconds
        toGo == (100 * utilisationPercent.d - utilisationPercent.n) * elapsed
        rate == utilisationPercent.n
        costDepletion == t + Trunc(toGo, rate)
        beforeReset == toGo < (resetTime - t) * rate
        soonAfterReset == toGo <= (resetTime + 30 * Minute - t) * rate
    IN  IF session = Nil \/ ~session[1].IsActive THEN resets
        ELSE IF ~RatLess(utilisationPercent, Rat(100, 1))
        THEN [Kind |-> "limit", At |-> t]
        ELSE IF utilisationPercent.n > 0 /\ elapsed >= Minute
        THEN IF beforeReset \/ soonAfterReset
             THEN [Kind |-> "limit", At |-> costDepletion]
             ELSE resets
        ELSE resets

\* the weekly part of renderPredictionWithOAuth
WeeklyPart(oauthData, t, showWeekly) ==
    LET weeklyPrediction == PredictWeeklyDepletion(oauthData.SevenDay, t)
    IN  IF ~showWeekly \/ weeklyPrediction.ResetTime = ZeroTime THEN Nil
        ELSE IF weeklyPrediction.Utilisation >= 100
        THEN <<[Kind |-> "exceeded", At |-> t]>>
        ELSE IF weeklyPrediction.DepletionTime # ZeroTime
                /\ weeklyPrediction.WillHitLimit
        THEN <<[Kind |-> "limit", At |-> weeklyPrediction.DepletionTime]>>
        ELSE Nil

\* renderPredictionWithOAuth
renderPredictionWithOAuth(oauthData, session, t, showWeekly) ==
    LET sessionJustRolledOver == ~(oauthData.FiveHour.ResetsAt[1] > t)
        resetTime == ShownResetTime(oauthData.FiveHour, t)
        reported == Rat(oauthData.FiveHour.Utilisation, 1)
        sessionStart == resetTime - 5 * Hour
        stale == /\ sessionJustRolledOver
                 /\ RatLess(Twice(MaxReasonablePercent(t - sessionStart)), reported)
        utilisationPercent == IF stale THEN Zero ELSE reported
        timeUntilReset == resetTime - t
    IN  [UtilisationPercent |-> utilisationPercent,
         Session            |-> SessionPart(utilisationPercent, session, resetTime, t),
         Weekly             |-> WeeklyPart(oauthData, t, showWeekly),
         Reminder           |-> /\ timeUntilReset > 0
                                /\ timeUntilReset < Hour
                                /\ RatLess(utilisationPercent, Rat(75, 1))]

\* renderOAuthLimitWarning without the staleness test
renderOAuthLimitWarningUnclamped(oauthData, t) ==
    LET percent == oauthData.FiveHour.Utilisation
    IN  IF percent > 95 THEN [Level |-> "critical", Percent |-> Rat(percent, 1)]
        ELSE IF percent > 85 THEN [Level |-> "warning", Percent |-> Rat(percent, 1)]
        ELSE [Level |-> "", Percent |-> Zero]

\* renderOAuthLimitWarning
renderOAuthLimitWarning(oauthData, t) ==
    LET percent == oauthData.FiveHour.Utilisation
        resetTime == oauthData.FiveHour.ResetsAt[1]
        stale == /\ ~(resetTime > t)
                 /\ RatLess(Twice(MaxReasonablePercent(t - resetTime)), Rat(percent, 1))
    IN  IF stale THEN [Level |-> "", Percent |-> Zero]
        ELSE IF percent > 95 THEN [Level |-> "critical", Percent |-> Rat(percent, 1)]
        ELSE IF percent > 85 THEN [Level |-> "warning", Percent |-> Rat(percent, 1)]
        ELSE [Level |-> "", Percent |-> Zero]

\* RenderDashboard; the weekly usage rows need per-tier data, which the
\* snapshots of the model do not carry
RenderDashboard(data, t) ==
    IF data.CurrentSession = Nil THEN [Kind |-> "no-session"]
    ELSE [Kind         |-> "dashboard",
          BurnRate     |-> CalculateBurnRate(data.AllSessions, t),
          CostBurnRate |-> calculateCostBurnRateFromSessions(data.AllSessions, t),
          Session      |-> IF data.OAuthData # Nil
                           THEN renderSessionMetricsFromOAuth(data.OAuthData[1], t)
                           ELSE renderSessionFallback(data.CurrentSession[1], t),
          Prediction   |-> IF data.OAuthData # Nil
                           THEN <<renderPredictionWithOAuth(data.OAuthData[1],
                                                            data.CurrentSession, t, TRUE)>>
                           ELSE Nil,
          Warning      |-> IF data.OAuthData # Nil
                           THEN renderOAuthLimitWarning(data.OAuthData[1], t)
                           ELSE [Level |-> "", Percent |-> Zero]]

----------------------------------------------------------------------------
(* internal/app: the data-loaded handler and the view *)

RECURSIVE FirstActive(_, _)
FirstActive(blocks, i) ==
    IF i > Len(blocks) THEN Nil
    ELSE IF blocks[i].IsActive /\ ~blocks[i].IsGap THEN <<blocks[i]>>
    ELSE FirstActive(blocks, i + 1)

RECURSIVE LastNonGap(_, _)
LastNonGap(blocks, i) ==
    IF i < 1 THEN Nil
    ELSE IF ~blocks[i].IsGap THEN <<blocks[i]>>
    ELSE LastNonGap(blocks, i - 1)

\* AppModel.SetData on the fields of m (sessions is a variable of its own;
\* the locally derived weekly usage is not modelled)
SetData(model, es, blocks, t) ==
    LET active == FirstActive(blocks, 1)
    IN  [model EXCEPT
            !.entries = es,
            !.lastRefresh = t,
            !.loading = FALSE,
            !.currentSession =
                IF active # Nil THEN active
                ELSE IF model.currentSession = Nil
                THEN LastNonGap(blocks, Len(blocks))
                ELSE model.currentSession]

\* AppModel.DisableOAuth, after the error has been logged once
DisableOAuth(model) ==
    [model EXCEPT !.oauthDisabled = TRUE,
                  !.oauthErrorLogged = TRUE,
                  !.oauthData = Nil]

\* AppModel.SetOAuthData and the fetch timestamps of fresh data
StoreOAuthData(model, oauthData, fresh, t) ==
    IF fresh
    THEN [model EXCEPT !.oauthData = oauthData,
                       !.lastOAuthFetch = t,
                       !.lastWeeklyFetch = t]
    ELSE [model EXCEPT !.oauthData = oauthData]

\* Update on a dataLoadedMsg without err, the clock reading t.  fetch is the
\* outcome of the OAuth step of loadDataCmdWithModel: "fresh" with a new
\* snapshot, "cached" (the stored snapshot, if any, is handed back),
\* "transient" (an error to retry) or "permanent" (an error that disables
\* OAuth).  The last three are only attempted while OAuth is not disabled.
DataLoaded(t, fetch, snapshot) ==
    /\ pc \in {"input", "loaded"}
    /\ t >= now
    /\ fetch \in {"fresh", "transient", "permanent"} => ~m.oauthDisabled
    /\ LET disabled == IF fetch = "permanent" THEN DisableOAuth(m) ELSE m
           stored == IF fetch = "fresh"
                     THEN StoreOAuthData(disabled, <<snapshot>>, TRUE, t)
                     ELSE IF fetch = "cached" /\ m.oauthData # Nil
                     THEN StoreOAuthData(disabled, m.oauthData, FALSE, t)
                     ELSE disabled
           blocks == UpdateSessionCosts(
                         MarkActiveSessions(CreateSessionBlocks(entries), t), t)
       IN  /\ sessions' = blocks
           /\ m' = SetData(stored, entries, blocks, t)
    /\ now' = t
    /\ pc' = "loaded"
    /\ resp' = Nil
    /\ view' = Nil
    /\ UNCHANGED <<srvVars, cmdVars, entries, forecast>>

\* Update on a dataLoadedMsg with err: SetError
DataLoadFailed ==
    /\ pc \in {"input", "loaded"}
    /\ ~m.err
    /\ m' = [m EXCEPT !.err = TRUE, !.loading = FALSE]
    /\ resp' = Nil
    /\ view' = Nil
    /\ UNCHANGED <<srvVars, cmdVars, pc, now, entries, sessions, forecast>>

\* The clock moves on between refreshes.
Advance(t) ==
    /\ pc = "loaded"
    /\ t > now
    /\ now' = t
    /\ resp' = Nil
    /\ view' = Nil
    /\ UNCHANGED <<srvVars, cmdVars, pc, entries, sessions, forecast, m>>

\* AppModel.View in the default view mode
View(model, blocks, t) ==
    IF model.err THEN [Kind |-> "error"]
    ELSE IF model.loading THEN [Kind |-> "loading"]
    ELSE IF Len(model.entries) = 0 THEN [Kind |-> "no-data"]
    ELSE RenderDashboard([Limits         |-> model.limits,
                          CurrentSession |-> model.currentSession,
                          AllSessions    |-> blocks,
                          OAuthData      |-> model.oauthData], t)

\* The TUI renders the model.
RenderView ==
    /\ pc \in {"input", "loaded"}
    /\ view = Nil
    /\ view' = <<View(m, sessions, now)>>
    /\ UNCHANGED <<srvVars, cmdVars, pc, now, entries, sessions, forecast, m, resp>>

\* The status document is built from the model.
ServeStatus ==
    /\ pc \in {"input", "loaded"}
    /\ resp = Nil
    /\ resp' = <<BuildStatusResponse(m, sessions, now)>>
    /\ UNCHANGED <<srvVars, cmdVars, pc, now, entries, sessions, forecast, m, view>>

----------------------------------------------------------------------------
(* The application fed bounded logs and usage snapshots *)

MaxStatusSlots == 4
StatusEvents == 1
StatusTimes == {k * Grain : k \in 0..MaxStatusSlots}
StatusUsages == {LargeUsage, UnpricedUsage}

\* what the usage API reports: the 5-hour and the 7-day utilisation
Percentages == {5, 20, 90, 100}
FiveHourResets == {Hour}
SevenDays == {[Utilisation |-> 50, ResetsAt |-> <<3 * Day>>]}
Snapshots ==
    {[FiveHour |-> [Utilisation |-> p, ResetsAt |-> <<r>>], SevenDay |-> w] :
        p \in Percentages, r \in FiveHourResets, w \in SevenDays}

InitStatus ==
    /\ srv = Nil
    /\ upd = Nil
    /\ reqs = Nil
    /\ cmds = <<>>
    /\ history = NoHistory
    /\ pc = "input"
    /\ now = 0
    /\ entries = <<>>
    /\ sessions = <<>>
    /\ forecast = Nil
    /\ m \in {NewModel(PredefinedLimits.max5), NewModel(CustomLimits)}
    /\ resp = Nil
    /\ view = Nil

NextStatus ==
    \/ \E t \in StatusTimes, u \in StatusUsages : LogEvent(t, u, StatusEvents)
    \/ \E t \in StatusTimes, o \in Snapshots : DataLoaded(t, "fresh", o)
    \/ \E t \in StatusTimes, fetch \in {"cached", "transient", "permanent"} :
           DataLoaded(t, fetch, Nil)
    \/ DataLoadFailed
    \/ \E t \in StatusTimes : Advance(t)
    \/ RenderView
    \/ ServeStatus

SpecStatus == InitStatus /\ [][NextStatus]_vars

----------------------------------------------------------------------------
(* Properties of the consumers of the reported 5-hour utilisation *)

\* p > 2 * max(1, ((t - resetsAt) / 5h) * 100) after a rollover, in integers
Implausible(p, resetsAt, t) ==
    /\ resetsAt <= t
    /\ p * (5 * Hour) > 2 * Max(5 * Hour, (t - resetsAt) * 100)

Reported == m.oauthData[1].FiveHour.Utilisation
ReportedReset == m.oauthData[1].FiveHour.ResetsAt[1]
Clamped == IF Implausible(Reported, ReportedReset, now) THEN 0 ELSE Reported

\* a status document with a session section, built from a stored snapshot
ServedWithOAuth == resp # Nil /\ m.oauthData # Nil /\ resp[1].Session # Nil

\* a dashboard rendered from a stored snapshot
RenderedWithOAuth == view # Nil /\ m.oauthData # Nil /\ view[1].Kind = "dashboard"

\* the warning the thresholds give for a percentage
LevelOf(percent) ==
    IF percent > 95 THEN "critical" ELSE IF percent > 85 THEN "warning" ELSE ""

ConsumersAgree ==
    ServedWithOAuth /\ RenderedWithOAuth =>
        /\ resp[1].Session[1].UtilisationPct = Rat(Clamped, 1)
        /\ view[1].Session.Percent = Rat(Clamped, 1)
        /\ view[1].Prediction[1].UtilisationPercent = Rat(Clamped, 1)
        /\ view[1].Warning.Level = LevelOf(Clamped)

\* a step that stores a snapshot leaves no implausible percentage in the model
ClampedWhenStored ==
    (m'.oauthData # Nil /\ m'.oauthData # m.oauthData) =>
        ~Implausible(m'.oauthData[1].FiveHour.Utilisation,
                     m'.oauthData[1].FiveHour.ResetsAt[1], now')

\* C7 as stated: the staleness clamp is applied once, when the snapshot is
\* stored, so that the stored percentage is never an unclamped stale one and
\* every consumer observes the same clamped value.
C7_Original == [][ClampedWhenStored]_vars /\ []ConsumersAgree

\* C7 amended: the snapshot is stored as reported, stale or not; the TUI
\* session display, the prediction input, the warning thresholds and the
\* status document each apply the same clamp when they read it, so for one
\* stored snapshot and one now they all observe the same clamped value.
C7_ClampedOnRead == ConsumersAgree

\* a stale 100% sits in the model while every consumer shows 0 and no warning
C7_Witness ==
    /\ ServedWithOAuth /\ RenderedWithOAuth
    /\ Reported = 100
    /\ Implausible(Reported, ReportedReset, now)
    /\ resp[1].Session[1].UtilisationPct = Zero
    /\ view[1].Session.Percent = Zero
    /\ view[1].Prediction[1].UtilisationPercent = Zero
    /\ view[1].Warning.Level = ""

\* C8: with reset timestamp resetsAt and reported percentage p, the session
\* utilisation of the status document is 0 if resetsAt <= now and
\* p > 2 * max(1, ((now - resetsAt) / 5h) * 100), and exactly p otherwise.
C8_StalenessClamp ==
    ServedWithOAuth =>
        resp[1].Session[1].UtilisationPct =
            IF Implausible(Reported, ReportedReset, now) THEN Zero
            ELSE Rat(Reported, 1)

\* 100% reported 30 minutes after the rollover is served as 0
C8_Witness ==
    /\ ServedWithOAuth
    /\ Reported = 100
    /\ now - ReportedReset = 30 * Minute
    /\ resp[1].Session[1].UtilisationPct = Zero

\* a status document built while no snapshot is stored
ServedWithoutOAuth == resp # Nil /\ m.oauthData = Nil

WeeklyOmitted ==
    /\ resp[1].Weekly = Nil
    /\ resp[1].Prediction[1].WeeklyLimitAt = Nil
    /\ resp[1].Prediction[1].WeeklyLimitInSeconds = Nil
    /\ ~resp[1].Prediction[1].WeeklyWillHitLimit

\* window state and velocity come from the events alone
EventsOnlyOutputs ==
    /\ resp[1].BurnRate # Nil
    /\ resp[1].BurnRate[1].TokensPerMin = CalculateBurnRate(sessions, now)
    /\ m.currentSession # Nil =>
           /\ resp[1].Session # Nil
           /\ resp[1].Session[1].ResetsAt = m.currentSession[1].EndTime
           /\ resp[1].Session[1].MessageCount = m.currentSession[1].MessageCount

\* C9 as stated: without a snapshot, window state and velocity are still
\* produced, and the session utilisation percentage, the weekly section and
\* the weekly forecast are left out, not estimated locally.
C9_Original ==
    ServedWithoutOAuth =>
        /\ EventsOnlyOutputs
        /\ WeeklyOmitted
        /\ resp[1].Session # Nil => resp[1].Session[1].UtilisationPct = Zero

\* C9 amended: without a snapshot, window state and velocity are still
\* produced and the weekly section and weekly forecast are left out, but the
\* session utilisation percentage is estimated locally as session cost over
\* the plan's cost limit times 100 (0 when the plan has no cost limit).
C9_CostEstimateFallback ==
    ServedWithoutOAuth =>
        /\ EventsOnlyOutputs
        /\ WeeklyOmitted
        /\ resp[1].Session # Nil =>
               LET pct == resp[1].Session[1].UtilisationPct
               IN  IF m.limits.CostLimitUSD > 0
                   THEN pct.n * m.limits.CostLimitUSD
                            = m.currentSession[1].CostUSD * 100 * pct.d
                   ELSE pct = Zero

\* no snapshot, one session of 30.00 USD on a 35.00 USD plan: the document
\* carries a session utilisation above 85% and no weekly data
C9_Witness ==
    /\ ServedWithoutOAuth
    /\ WeeklyOmitted
    /\ resp[1].Session # Nil
    /\ RatLess(Rat(85, 1), resp[1].Session[1].UtilisationPct)

----------------------------------------------------------------------------
(* CalculateBurnRate applied to marked windows *)

BurnHours == 7
BurnEvents == 2
BurnTimes == {k * Grain : k \in 0..(BurnHours * SlotsPerHour)}

\* CalculateBurnRate(sessions, t), called at or after the instant of marking
MeasureBurn(t) ==
    /\ pc = "marked"
    /\ t >= now
    /\ forecast' = <<[fn      |-> "burn",
                      rate    |-> CalculateBurnRate(sessions, t),
                      weights |-> [i \in 1..Len(sessions) |->
                                      ProportionInHour(sessions[i], t)]]>>
    /\ now' = t
    /\ pc' = "measured"
    /\ UNCHANGED <<srvVars, cmdVars, entries, sessions, appVars>>

NextBurn ==
    \/ \E t \in BurnTimes, u \in {LoggedUsage, UnpricedUsage} :
           LogEvent(t, u, BurnEvents)
    \/ \E t \in BurnTimes : Classify(t)
    \/ \E t \in BurnTimes : MeasureBurn(t)

SpecBurn == InitWindower /\ [][NextBurn]_vars

Measured == pc = "measured" /\ forecast # Nil /\ forecast[1].fn = "burn"

RECURSIVE SumDisplayTokens(_)
SumDisplayTokens(blocks) ==
    IF blocks = <<>> THEN 0
    ELSE (IF Head(blocks).IsGap THEN 0 ELSE Head(blocks).DisplayTokens)
             + SumDisplayTokens(Tail(blocks))

\* the end CalculateBurnRate takes for a block when called at now
BurnEnd(b) ==
    IF b.IsActive THEN now
    ELSE IF b.ActualEndTime # Nil THEN b.ActualEndTime[1]
    ELSE b.EndTime

\* C11: every non-gap window's weight lies in [0, 1], a window whose total
\* duration is <= 0 contributes nothing, and the velocity satisfies
\* 0 <= velocity <= (sum of displayTokens over non-gap windows) / 60.
C11_BurnRateBounded ==
    Measured =>
        LET f == forecast[1]
        IN  /\ \A i \in 1..Len(sessions) :
                   /\ f.weights[i] # Nil =>
                          /\ ~sessions[i].IsGap
                          /\ 0 <= f.weights[i][1].n
                          /\ f.weights[i][1].n <= f.weights[i][1].d
                   /\ BurnEnd(sessions[i]) - sessions[i].StartTime <= 0 =>
                          f.weights[i] = Nil
            /\ 0 <= f.rate.n
            /\ f.rate.n * 60 <= SumDisplayTokens(sessions) * f.rate.d

\* a window that spans the lookback boundary is weighted strictly between
\* 0 and 1, next to a window of zero duration that contributes nothing
C11_Witness ==
    /\ Measured
    /\ \E i \in 1..Len(sessions) :
           /\ forecast[1].weights[i] # Nil
           /\ 0 < forecast[1].weights[i][1].n
           /\ forecast[1].weights[i][1].n < forecast[1].weights[i][1].d
           /\ sessions[i].StartTime < now - Hour
    /\ \E j \in 1..Len(sessions) :
           /\ ~sessions[j].IsGap
           /\ BurnEnd(sessions[j]) = sessions[j].StartTime
    /\ forecast[1].rate.n > 0

----------------------------------------------------------------------------
(* Properties of every forecast *)

\* the instant the last predictor call returned
ForecastAt ==
    IF forecast[1].fn = "weekly" THEN forecast[1].prediction.DepletionTime
    ELSE forecast[1].at

Forecasted == ShortCalled \/ WeeklyCalled

\* C12: every depletion forecast (cost, token, weekly) is either the zero
\* instant or a concrete instant later than now, never one at or before now.
C12_FutureOrUndefined == Forecasted => ForecastAt = ZeroTime \/ ForecastAt > now

\* what the predictors keep, within the range where the whole minutes of a
\* forecast fit a time.Duration: no forecast lies before now
C12_NotBeforeNow == Forecasted => ForecastAt = ZeroTime \/ ForecastAt >= now

----------------------------------------------------------------------------
(* internal/models and internal/data: plan limits inferred from the windows *)

\* models.GetLimits: the predefined limits, Pro for an unknown plan
GetLimits(plan) ==
    IF plan \in DOMAIN PredefinedLimits
    THEN PredefinedLimits[plan]
    ELSE PredefinedLimits["pro"]

\* the blocks ShouldSwitchToCustom and CalculateP90Limit look at
Completed(blocks) == SelectSeq(blocks, LAMBDA b : ~b.IsGap /\ ~b.IsActive)

\* ShouldSwitchToCustom; exceedCount / totalSessions > 0.3 in integers
ShouldSwitchToCustom(blocks, currentPlan) ==
    IF currentPlan = "custom" THEN FALSE
    ELSE LET limits == GetLimits(currentPlan)
             completed == Completed(blocks)
             totalSessions == Len(completed)
             exceedCount ==
                 Len(SelectSeq(completed,
                               LAMBDA b : b.TotalTokens > limits.TokenLimit))
         IN  totalSessions > 0 /\ exceedCount * 10 > 3 * totalSessions

\* DefaultP90Config
DefaultP90Config ==
    [CommonLimits    |-> <<19000, 88000, 220000>>,
     LimitThreshold  |-> [n |-> 95, d |-> 100],
     DefaultMinLimit |-> 19000]

\* sort.Ints by insertion
RECURSIVE Insert(_, _)
Insert(x, sorted) ==
    IF sorted = <<>> THEN <<x>>
    ELSE IF x <= Head(sorted) THEN <<x>> \o sorted
    ELSE <<Head(sorted)>> \o Insert(x, Tail(sorted))

RECURSIVE SortInts(_)
SortInts(data) == IF data = <<>> THEN <<>> ELSE Insert(Head(data), SortInts(Tail(data)))

\* quantile rounding the index up instead of down
quantileCeiling(data, q) ==
    IF Len(data) = 0 THEN 0
    ELSE LET sorted == SortInts(data)
             raw == ((Len(sorted) - 1) * q.n + q.d - 1) \div q.d
             index == IF raw < 0 THEN 0
                      ELSE IF raw >= Len(sorted) THEN Len(sorted) - 1
                      ELSE raw
         IN  sorted[index + 1]

\* quantile(data, q) for q = q.n / q.d; sorted is indexed from 1 here
quantile(data, q) ==
    IF Len(data) = 0 THEN 0
    ELSE LET sorted == SortInts(data)
             raw == ((Len(sorted) - 1) * q.n) \div q.d
             index == IF raw < 0 THEN 0
                      ELSE IF raw >= Len(sorted) THEN Len(sorted) - 1
                      ELSE raw
         IN  sorted[index + 1]

\* float64(tokens) >= float64(limit) * config.LimitThreshold for some limit
HitsKnownLimit(tokens, config) ==
    \E k \in 1..Len(config.CommonLimits) :
        tokens * config.LimitThreshold.d
            >= config.CommonLimits[k] * config.LimitThreshold.n

RECURSIVE TokensOf(_)
TokensOf(blocks) ==
    IF blocks = <<>> THEN <<>>
    ELSE <<Head(blocks).TotalTokens>> \o TokensOf(Tail(blocks))

\* CalculateP90Limit
CalculateP90Limit(blocks, config) ==
    LET completed == Completed(blocks)
        hits == TokensOf(SelectSeq(completed,
                    LAMBDA b : HitsKnownLimit(b.TotalTokens, config)))
        hitSessions == IF Len(hits) = 0
                       THEN TokensOf(SelectSeq(completed,
                                LAMBDA b : b.TotalTokens > 0))
                       ELSE hits
        p90 == quantile(hitSessions, [n |-> 90, d |-> 100])
    IN  IF Len(hitSessions) = 0 THEN config.DefaultMinLimit
        ELSE IF p90 < config.DefaultMinLimit THEN config.DefaultMinLimit
        ELSE p90

----------------------------------------------------------------------------
(* The limit checks applied to marked windows *)

\* a usage of exactly 95% of the Pro ceiling, and one above 95% of Max5's
BoundaryUsage ==
    [InputTokens |-> 15000, OutputTokens |-> 3050, CacheCreationTokens |-> 0,
     CacheReadTokens |-> 0, CostUSD |-> 100]

HeavyUsage ==
    [InputTokens |-> 50000, OutputTokens |-> 10000, CacheCreationTokens |-> 0,
     CacheReadTokens |-> 30000, CostUSD |-> 900]

\* events fall on window boundaries, up to MaxLimitWindows windows apart
MaxLimitWindows == 4
LimitEvents == 3
LimitTimes == {k * SessionDuration : k \in 0..MaxLimitWindows}
LimitMarkTimes == LimitTimes \cup {t + Grain : t \in LimitTimes}
LimitUsages == {LoggedUsage, BoundaryUsage, HeavyUsage}
Plans == {"pro", "max5", "custom", "team"}

\* a P90 configuration with a low minimum, next to the default
LowMinimumP90Config == [DefaultP90Config EXCEPT !.DefaultMinLimit = 1000]

CallShouldSwitch(plan) ==
    /\ pc = "marked"
    /\ forecast' = <<[fn |-> "switch", plan |-> plan,
                      result |-> ShouldSwitchToCustom(sessions, plan)]>>
    /\ pc' = "done"
    /\ UNCHANGED <<srvVars, cmdVars, now, entries, sessions, appVars>>

CallP90(config) ==
    /\ pc = "marked"
    /\ forecast' = <<[fn |-> "p90", config |-> config,
                      result |-> CalculateP90Limit(sessions, config)]>>
    /\ pc' = "done"
    /\ UNCHANGED <<srvVars, cmdVars, now, entries, sessions, appVars>>

NextLimits ==
    \/ \E t \in LimitTimes, u \in LimitUsages : LogEvent(t, u, LimitEvents)
    \/ \E t \in LimitMarkTimes : Classify(t)
    \/ \E plan \in Plans : CallShouldSwitch(plan)
    \/ \E config \in {DefaultP90Config, LowMinimumP90Config} : CallP90(config)

SpecLimits == InitWindower /\ [][NextLimits]_vars

SwitchCalled == pc = "done" /\ forecast # Nil /\ forecast[1].fn = "switch"

\* the plans' token ceiling as the limits table documents it: 0 is "no
\* per-session token limit"
ExceedsCeiling(b, ceiling) == ceiling > 0 /\ b.TotalTokens > ceiling

\* C13: ShouldSwitchToCustom is true iff the plan is not "custom" and
\* strictly more than 30% of the completed windows exceed the plan's token
\* ceiling, a ceiling of 0 being unbounded.
C13_SwitchIffOverCeiling ==
    SwitchCalled =>
        LET plan == forecast[1].plan
            completed == Completed(sessions)
            over == SelectSeq(completed,
                        LAMBDA b : ExceedsCeiling(b, GetLimits(plan).TokenLimit))
        IN  forecast[1].result <=>
                /\ plan # "custom"
                /\ Len(completed) > 0
                /\ Len(over) * 10 > 3 * Len(completed)

\* what the code computes: 0 is compared as a ceiling of zero tokens
C13_ZeroIsACeiling ==
    SwitchCalled =>
        LET plan == forecast[1].plan
            completed == Completed(sessions)
            over == SelectSeq(completed,
                        LAMBDA b : b.TotalTokens > GetLimits(plan).TokenLimit)
        IN  forecast[1].result <=>
                /\ plan # "custom"
                /\ Len(completed) > 0
                /\ Len(over) * 10 > 3 * Len(completed)

P90Called == pc = "done" /\ forecast # Nil /\ forecast[1].fn = "p90"

\* the known budget ceilings
KnownCeilings == {19000, 88000, 220000}

\* the totalTokens of the completed windows, by position
CompletedTokens == TokensOf(Completed(sessions))

\* positions of the values the percentile is taken over: the completed
\* windows at or above 95% of a known ceiling, or all of them if there is none
HitPositions ==
    {i \in 1..Len(CompletedTokens) :
        \E c \in KnownCeilings : CompletedTokens[i] * 100 >= 95 * c}

P90Positions ==
    IF HitPositions = {} THEN 1..Len(CompletedTokens) ELSE HitPositions

\* v is the value at 0-based index k of the ascending order of the values
AtRank(v, k) ==
    /\ \E i \in P90Positions : CompletedTokens[i] = v
    /\ Cardinality({i \in P90Positions : CompletedTokens[i] < v}) <= k
    /\ Cardinality({i \in P90Positions : CompletedTokens[i] <= v}) > k

\* C14: over the completed non-gap windows at or above 95% of a known
\* ceiling (all completed windows if there is none), CalculateP90Limit
\* returns max(minimum, sorted[floor((n-1) * 0.90)]), and the minimum when
\* there are no values.
C14_NearestRankP90 ==
    P90Called =>
        LET n == Cardinality(P90Positions)
            minimum == forecast[1].config.DefaultMinLimit
            result == forecast[1].result
        IN  IF n = 0 THEN result = minimum
            ELSE \E v \in {CompletedTokens[i] : i \in P90Positions} :
                     /\ AtRank(v, ((n - 1) * 9) \div 10)
                     /\ result = Max(minimum, v)

\* two completed windows at 18050 and 90000 tokens next to a lighter one:
\* the lower of the two hits is returned, above the configured minimum
C14_Witness ==
    /\ P90Called
    /\ Len(CompletedTokens) = 3
    /\ Cardinality(HitPositions) = 2
    /\ \E i, j \in HitPositions : CompletedTokens[i] < CompletedTokens[j]
    /\ forecast[1].result = 18050
    /\ forecast[1].result > forecast[1].config.DefaultMinLimit

----------------------------------------------------------------------------
(* The embedded API server (internal/api/server.go) *)

\* Strings the server takes apart are sequences of characters.
BearerPrefix == <<"B", "e", "a", "r", "e", "r", " ">>

\* extractBearerToken: the text after "Bearer ", "" when the header is
\* absent, has another scheme, or is the bare prefix
extractBearerToken(auth) ==
    IF /\ Len(auth) > Len(BearerPrefix)
       /\ SubSeq(auth, 1, Len(BearerPrefix)) = BearerPrefix
    THEN SubSeq(auth, Len(BearerPrefix) + 1, Len(auth))
    ELSE <<>>

\* Addresses are AddressBits wide; a network is a base address and a
\* prefix length.
AddressBits == 2
Addresses == 0..(2^AddressBits - 1)

\* net.IPNet.Contains
Contains(ipNet, ip) ==
    LET size == 2^(AddressBits - ipNet.bits)
    IN  ip \div size = ipNet.base \div size

\* net.ParseCIDR on the texts of the model: "lan" is the lower half of the
\* address space, "host3" the single address 3, anything else is an error
ParseCIDR(cidr) ==
    IF cidr = "lan" THEN <<[base |-> 0, bits |-> 1]>>
    ELSE IF cidr = "host3" THEN <<[base |-> 3, bits |-> AddressBits]>>
    ELSE Nil

\* net.ParseIP on the host texts of the model
ParseIP(host) ==
    IF host = "ip0" THEN <<0>>
    ELSE IF host = "ip1" THEN <<1>>
    ELSE IF host = "ip2" THEN <<2>>
    ELSE IF host = "ip3" THEN <<3>>
    ELSE Nil

\* net.SplitHostPort on a remote address <<host, ":", port>>; an address
\* of any other shape is an error
SplitHostPort(remoteAddr) ==
    IF Len(remoteAddr) = 3 /\ remoteAddr[2] = ":"
    THEN [host |-> remoteAddr[1], err |-> FALSE]
    ELSE [host |-> "", err |-> TRUE]

\* api.New: the networks of the CIDR texts that parse, in order
RECURSIVE ParseNets(_)
ParseNets(cidrs) ==
    IF cidrs = <<>> THEN <<>>
    ELSE ParseCIDR(cidrs[1]) \o ParseNets(Tail(cidrs))

\* a sync.RWMutex: held by a writer, or by r readers
Unlocked == [w |-> FALSE, r |-> 0]

\* a []byte value: the backing array it points to (0 is nil) and its length
NilSlice == [ptr |-> 0, len |-> 0]

New(cfg) ==
    [mu          |-> Unlocked,
     snapshot    |-> NilSlice,
     snapshotAt  |-> ZeroTime,
     config      |-> cfg,
     allowedNets |-> ParseNets(cfg.AllowedCIDRs)]

\* isAllowedIP with every address accepted when it does not parse
isAllowedIPLenient(server, remoteAddr) ==
    LET split == SplitHostPort(remoteAddr)
        host == IF split.err /\ Len(remoteAddr) = 1 THEN remoteAddr[1]
                ELSE split.host
        ip == ParseIP(host)
    IN  IF ip = Nil THEN TRUE
        ELSE \E i \in 1..Len(server.allowedNets) :
                 Contains(server.allowedNets[i], ip[1])

\* Server.isAllowedIP
isAllowedIP(server, remoteAddr) ==
    LET split == SplitHostPort(remoteAddr)
        host == IF split.err /\ Len(remoteAddr) = 1 THEN remoteAddr[1]
                ELSE split.host
        ip == ParseIP(host)
    IN  IF ip = Nil THEN FALSE
        ELSE \E i \in 1..Len(server.allowedNets) :
                 Contains(server.allowedNets[i], ip[1])

\* the checks of handleStatus ahead of the snapshot: the status they end
\* the request with, 0 when the request passes
Admission(server, remoteAddr, auth) ==
    IF Len(server.allowedNets) > 0 /\ ~isAllowedIP(server, remoteAddr)
    THEN 403
    ELSE IF /\ server.config.Token # <<>>
            /\ extractBearerToken(auth) # server.config.Token
    THEN 401
    ELSE 0

\* RWMutex.RLock returning at once whatever a writer holds
CanRLockUnguarded(mu) == TRUE

\* RWMutex.RLock returns while no writer holds the lock
CanRLock(mu) == ~mu.w

\* RWMutex.Lock returns while nobody holds the lock
CanLock(mu) == ~mu.w /\ mu.r = 0

\* The documents a publisher marshals; each call of UpdateSnapshot passes
\* a freshly allocated one that nobody writes to afterwards.
Docs == << <<"a">>, <<"b", "b">> >>

SliceOf(d) == [ptr |-> d, len |-> Len(Docs[d])]

\* the bytes a slice value denotes; bytes past the end of the backing
\* array are whatever lies behind it
Bytes(slice) ==
    [i \in 1..slice.len |->
        IF slice.ptr # 0 /\ i <= Len(Docs[slice.ptr])
        THEN Docs[slice.ptr][i] ELSE "?"]

NoDataBody == <<"n", "o", " ", "d", "a", "t", "a">>

MaxUpdaters == 2
MaxUpdates == 1
MaxRequests == 2
Updaters == 1..MaxUpdaters
Requests == 1..MaxRequests

\* a goroutine about to call UpdateSnapshot
IdleUpdater == [pc |-> "idle", data |-> NilSlice, calls |-> 0, passed |-> {}]

\* a connection no request has arrived on yet
NoRequest ==
    [pc |-> "idle", RemoteAddr |-> <<>>, Authorization |-> <<>>,
     data |-> NilSlice, status |-> 0, body |-> <<>>, known |-> {}]

\* every document handed to UpdateSnapshot so far
Passed == UNION {upd[u].passed : u \in Updaters}

\* UpdateSnapshot(data) is called
CallUpdateSnapshot(u, d) ==
    /\ upd[u].pc = "idle"
    /\ upd[u].calls < MaxUpdates
    /\ upd' = [upd EXCEPT ![u] = [pc     |-> "Lock",
                                  data   |-> SliceOf(d),
                                  calls  |-> @.calls + 1,
                                  passed |-> @.passed \cup {Docs[d]}]]
    /\ UNCHANGED <<pc, now, entries, sessions, forecast, m, resp, view,
                   srv, reqs, cmdVars>>

\* s.mu.Lock()
Lock(u) ==
    /\ upd[u].pc = "Lock"
    /\ CanLock(srv.mu)
    /\ srv' = [srv EXCEPT !.mu.w = TRUE]
    /\ upd' = [upd EXCEPT ![u].pc = "storePtr"]
    /\ UNCHANGED <<pc, now, entries, sessions, forecast, m, resp, view,
                   reqs, cmdVars>>

\* s.snapshot = data, the pointer word
StorePtr(u) ==
    /\ upd[u].pc = "storePtr"
    /\ srv' = [srv EXCEPT !.snapshot.ptr = upd[u].data.ptr]
    /\ upd' = [upd EXCEPT ![u].pc = "storeLen"]
    /\ UNCHANGED <<pc, now, entries, sessions, forecast, m, resp, view,
                   reqs, cmdVars>>

\* s.snapshot = data, the length word; s.snapshotAt = time.Now()
StoreLen(u) ==
    /\ upd[u].pc = "storeLen"
    /\ srv' = [srv EXCEPT !.snapshot.len = upd[u].data.len,
                          !.snapshotAt = now]
    /\ upd' = [upd EXCEPT ![u].pc = "Unlock"]
    /\ UNCHANGED <<pc, now, entries, sessions, forecast, m, resp, view,
                   reqs, cmdVars>>

\* s.mu.Unlock()
Unlock(u) ==
    /\ upd[u].pc = "Unlock"
    /\ srv' = [srv EXCEPT !.mu.w = FALSE]
    /\ upd' = [upd EXCEPT ![u].pc = "idle"]
    /\ UNCHANGED <<pc, now, entries, sessions, forecast, m, resp, view,
                   reqs, cmdVars>>

\* handleStatus up to the lock: the allowlist check, then the token check
HandleStatus(r, remoteAddr, auth) ==
    /\ reqs[r].pc = "idle"
    /\ LET status == Admission(srv, remoteAddr, auth)
       IN  reqs' = [reqs EXCEPT ![r] =
                       [@ EXCEPT !.RemoteAddr = remoteAddr,
                                 !.Authorization = auth,
                                 !.status = status,
                                 !.pc = IF status = 0 THEN "RLock"
                                        ELSE "done"]]
    /\ UNCHANGED <<pc, now, entries, sessions, forecast, m, resp, view,
                   srv, upd, cmdVars>>

\* s.mu.RLock()
RLock(r) ==
    /\ reqs[r].pc = "RLock"
    /\ CanRLock(srv.mu)
    /\ srv' = [srv EXCEPT !.mu.r = @ + 1]
    /\ reqs' = [reqs EXCEPT ![r].pc = "loadPtr"]
    /\ UNCHANGED <<pc, now, entries, sessions, forecast, m, resp, view,
                   upd, cmdVars>>

\* data := s.snapshot, the pointer word
LoadPtr(r) ==
    /\ reqs[r].pc = "loadPtr"
    /\ reqs' = [reqs EXCEPT ![r].data.ptr = srv.snapshot.ptr,
                            ![r].pc = "loadLen"]
    /\ UNCHANGED <<pc, now, entries, sessions, forecast, m, resp, view,
                   srv, upd, cmdVars>>

\* data := s.snapshot, the length word
LoadLen(r) ==
    /\ reqs[r].pc = "loadLen"
    /\ reqs' = [reqs EXCEPT ![r].data.len = srv.snapshot.len,
                            ![r].pc = "RUnlock"]
    /\ UNCHANGED <<pc, now, entries, sessions, forecast, m, resp, view,
                   srv, upd, cmdVars>>

\* s.mu.RUnlock()
RUnlock(r) ==
    /\ reqs[r].pc = "RUnlock"
    /\ srv' = [srv EXCEPT !.mu.r = @ - 1]
    /\ reqs' = [reqs EXCEPT ![r].pc = "write"]
    /\ UNCHANGED <<pc, now, entries, sessions, forecast, m, resp, view,
                   upd, cmdVars>>

\* the response is written: 503 without data, else 200 with the bytes of
\* data.  known records the documents passed to UpdateSnapshot by then.
WriteResponse(r) ==
    /\ reqs[r].pc = "write"
    /\ reqs' = [reqs EXCEPT ![r] =
                   [@ EXCEPT !.status = IF reqs[r].data.len = 0 THEN 503
                                        ELSE 200,
                             !.body = IF reqs[r].data.len = 0 THEN NoDataBody
                                      ELSE Bytes(reqs[r].data),
                             !.known = Passed,
                             !.pc = "done"]]
    /\ UNCHANGED <<pc, now, entries, sessions, forecast, m, resp, view,
                   srv, upd, cmdVars>>

\* the configurations of the model
Token == <<"t", "k">>
OpenConfig == [Token |-> <<>>, AllowedCIDRs |-> <<>>]
APIConfigs ==
    {[Token |-> tok, AllowedCIDRs |-> cidrs] :
        tok \in {<<>>, Token},
        cidrs \in {<<>>, <<"lan">>, <<"bogus">>, <<"bogus", "lan", "host3">>}}

\* what a request can carry
RemoteAddrs ==
    {<<"ip0", ":", "4242">>, <<"ip2", ":", "4242">>, <<"ip3", ":", "80">>,
     <<"ip1">>, <<"nonsense", ":", "1">>}
Authorizations ==
    {<<>>, BearerPrefix \o Token, BearerPrefix \o Token \o <<"k">>,
     BearerPrefix, <<"b">> \o Tail(BearerPrefix \o Token)}

InitServer(configs) ==
    /\ pc = "input"
    /\ now = 0
    /\ entries = <<>>
    /\ sessions = <<>>
    /\ forecast = Nil
    /\ m = NewModel(PredefinedLimits.max5)
    /\ resp = Nil
    /\ view = Nil
    /\ cmds = <<>>
    /\ history = NoHistory
    /\ srv \in {New(cfg) : cfg \in configs}
    /\ upd = [u \in Updaters |-> IdleUpdater]
    /\ reqs = [r \in Requests |-> NoRequest]

UpdaterStep(u) ==
    \/ \E d \in 1..Len(Docs) : CallUpdateSnapshot(u, d)
    \/ Lock(u)
    \/ StorePtr(u)
    \/ StoreLen(u)
    \/ Unlock(u)

RequestStep(r) ==
    \/ RLock(r)
    \/ LoadPtr(r)
    \/ LoadLen(r)
    \/ RUnlock(r)
    \/ WriteResponse(r)

\* an open server, any number of publishers and requests at once
NextServer ==
    \/ \E u \in Updaters : UpdaterStep(u)
    \/ \E r \in Requests : HandleStatus(r, <<"ip0", ":", "4242">>, <<>>)
    \/ \E r \in Requests : RequestStep(r)

SpecServer == InitServer({OpenConfig}) /\ [][NextServer]_vars

\* every configuration, every kind of request, one publisher
NextAccess ==
    \/ UpdaterStep(1)
    \/ \E r \in Requests, a \in RemoteAddrs, h \in Authorizations :
           HandleStatus(r, a, h)
    \/ \E r \in Requests : RequestStep(r)

SpecAccess == InitServer(APIConfigs) /\ [][NextAccess]_vars

----------------------------------------------------------------------------
(* Properties of the API server *)

Answered(r) == reqs[r].pc = "done"

\* C15: under any interleaving of UpdateSnapshot calls and status requests,
\* the body of every 200 response is, byte for byte, one document that had
\* been passed to UpdateSnapshot before the response was written.
C15_WholeSnapshots ==
    \A r \in Requests :
        Answered(r) /\ reqs[r].status = 200 => reqs[r].body \in reqs[r].known

\* one request has been answered with the first document; the other holds
\* the read lock half way through its copy while an updater waits for the
\* lock with the second document
C15_Witness ==
    \E r1, r2 \in Requests, u \in Updaters :
        /\ Answered(r1) /\ reqs[r1].status = 200 /\ reqs[r1].body = Docs[1]
        /\ reqs[r2].pc = "loadLen"
        /\ upd[u].pc = "Lock" /\ upd[u].data = SliceOf(2)

\* the addresses a CIDR text of the configuration covers
Covered(cidr) ==
    IF cidr = "lan" THEN {0, 1} ELSE IF cidr = "host3" THEN {3} ELSE {}

\* the text of an address
HostText(a) == <<"ip0", "ip1", "ip2", "ip3">>[a + 1]

\* an allowlist is in force when some configured CIDR is a network
AllowlistInForce ==
    \E i \in 1..Len(srv.config.AllowedCIDRs) :
        Covered(srv.config.AllowedCIDRs[i]) # {}

\* the remote IP of a request lies inside an allowed CIDR
RemoteAllowed(r) ==
    \E i \in 1..Len(srv.config.AllowedCIDRs), a \in Addresses :
        /\ a \in Covered(srv.config.AllowedCIDRs[i])
        /\ reqs[r].RemoteAddr[1] = HostText(a)

PassesIPCheck(r) == AllowlistInForce => RemoteAllowed(r)

PassesTokenCheck(r) ==
    srv.config.Token # <<>> =>
        reqs[r].Authorization = BearerPrefix \o srv.config.Token

\* C16: a request is answered 403 when an allowlist is in force and its
\* remote IP lies in no allowed CIDR, whatever token it carries; otherwise
\* 401 when a token is configured and the Authorization header is not
\* exactly "Bearer <token>"; only a request passing both checks reaches the
\* snapshot (200, or 503 while there is none).  With no allowlist in force
\* no request is answered 403.
C16_AdmissionOrder ==
    \A r \in Requests :
        Answered(r) =>
            /\ ~PassesIPCheck(r) <=> reqs[r].status = 403
            /\ PassesIPCheck(r) /\ ~PassesTokenCheck(r)
                   <=> reqs[r].status = 401
            /\ PassesIPCheck(r) /\ PassesTokenCheck(r)
                   <=> reqs[r].status \in {200, 503}

\* with a token and an allowlist configured, a request from outside the
\* allowlist carrying the right token got 403 and one from inside got 200
C16_Witness ==
    /\ srv.config.Token # <<>>
    /\ AllowlistInForce
    /\ \E r1, r2 \in Requests :
        /\ Answered(r1) /\ reqs[r1].status = 403
        /\ reqs[r1].Authorization = BearerPrefix \o srv.config.Token
        /\ Answered(r2) /\ reqs[r2].status = 200

----------------------------------------------------------------------------
(* The refresh cycles of the TUI (internal/app/app.go) *)

\* a fresh OAuth result is reused for this long
OAuthCacheTime == 60
\* the weekly safety net
WeeklyRefreshTime == 15 * Minute
\* a refresh older than this means the machine slept
SleepGap == 2 * Minute

\* app.NewModel where oauth.IsAvailable answers oauthAvailable: the
\* default refresh rate of 30 seconds becomes 60 with OAuth
WithOAuth(model, oauthAvailable) ==
    [model EXCEPT !.oauthEnabled = oauthAvailable,
                  !.refreshRate = IF oauthAvailable THEN 60 ELSE @]

\* time.Since(x) >= d at the clock reading t; for the zero time the
\* difference saturates at the longest Duration
SinceAtLeast(x, d, t) == x = ZeroTime \/ t - x >= d

\* isOAuthSessionStale.  The branch counting how long the remaining time
\* has been zero follows a return for the same condition and cannot run.
isOAuthSessionStale(model, t) ==
    IF model = Nil \/ model[1].oauthData = Nil THEN FALSE
    ELSE LET model1 == model[1]
             fiveHour == model1.oauthData[1].FiveHour
         IN  IF /\ model1.lastRefresh # ZeroTime
                /\ t - model1.lastRefresh > SleepGap
             THEN TRUE
             ELSE IF fiveHour.ResetsAt = Nil THEN TRUE
             ELSE IF fiveHour.ResetsAt[1] + 5 * Hour <= t THEN TRUE
             ELSE /\ fiveHour.ResetsAt[1] <= t
                  /\ RatLess(Twice(MaxReasonablePercent(
                                       t - fiveHour.ResetsAt[1])),
                             Rat(fiveHour.Utilisation, 1))

\* shouldFetchOAuth of loadDataCmdWithModel; model is the *AppModel the
\* command was built with, Nil for loadDataCmd
shouldFetchOAuth(available, model, forceRefresh, t) ==
    LET oauthNotDisabled == model = Nil \/ ~model[1].oauthDisabled
        weeklyRefreshNeeded ==
            /\ model # Nil
            /\ model[1].lastWeeklyFetch # ZeroTime
            /\ t - model[1].lastWeeklyFetch >= WeeklyRefreshTime
    IN  /\ available
        /\ oauthNotDisabled
        /\ \/ model = Nil
           \/ forceRefresh
           \/ SinceAtLeast(model[1].lastOAuthFetch, OAuthCacheTime, t)
           \/ isOAuthSessionStale(model, t)
           \/ weeklyRefreshNeeded

NoFetch ==
    [oauthData |-> Nil, oauthErr |-> FALSE, oauthDisabled |-> FALSE,
     oauthFreshData |-> FALSE]

\* the OAuth fields of the message with every failed fetch taken as
\* permanent
FetchResultStrict(outcome, snapshot) ==
    IF outcome = "fresh"
    THEN [NoFetch EXCEPT !.oauthData = <<snapshot>>, !.oauthFreshData = TRUE]
    ELSE [NoFetch EXCEPT !.oauthErr = TRUE, !.oauthDisabled = TRUE]

\* the OAuth fields of the message after a fetch was decided on: outcome
\* is "fresh" (FetchUsage returned snapshot), "transient" (an error that
\* IsTransientError accepts), "permanent" (ErrTokenExpired or any other
\* error) or "noclient" (NewClient failed)
FetchResult(outcome, snapshot) ==
    IF outcome = "fresh"
    THEN [NoFetch EXCEPT !.oauthData = <<snapshot>>, !.oauthFreshData = TRUE]
    ELSE IF outcome = "transient"
    THEN [NoFetch EXCEPT !.oauthErr = TRUE]
    ELSE [NoFetch EXCEPT !.oauthErr = TRUE, !.oauthDisabled = TRUE]

\* the OAuth fields of the message when no fetch is made: the cached data
\* of the model the command was built with, if any
CachedResult(model) ==
    IF model # Nil /\ model[1].oauthData # Nil
    THEN [NoFetch EXCEPT !.oauthData = model[1].oauthData]
    ELSE NoFetch

\* Update on a dataLoadedMsg: the next model
UpdateDataLoaded(model, msg, blocks, t) ==
    IF msg.err THEN [model EXCEPT !.err = TRUE, !.loading = FALSE]
    ELSE LET disabled == IF msg.oauthErr /\ msg.oauthDisabled
                         THEN DisableOAuth(model) ELSE model
             stored == IF msg.oauthData # Nil
                       THEN StoreOAuthData(disabled, msg.oauthData,
                                           msg.oauthFreshData, t)
                       ELSE disabled
         IN  SetData(stored, msg.entries, blocks, t)

\* the wall-clock jump test of the tick handler with >= in place of >
TimeJumpInclusive(lastTickTime, t, refreshRate) ==
    lastTickTime # ZeroTime /\ t - lastTickTime >= refreshRate * 2

\* the wall-clock jump test of the tick handler
TimeJump(lastTickTime, t, refreshRate) ==
    lastTickTime # ZeroTime /\ t - lastTickTime > refreshRate * 2

\* the instants of the model: around the refresh rate, and around the
\* weekly safety net
PollTimes == {0, 60, 180, 240}
LongPollTimes == {0, 60, 900, 960}
MaxCycles == 3
MaxInFlight == 2
PollSnapshots ==
    {[FiveHour |-> [Utilisation |-> 20, ResetsAt |-> <<Hour>>],
      SevenDay |-> [Utilisation |-> 50, ResetsAt |-> <<3 * Day>>]]}
\* the snapshot argument of the steps that make no use of it
DefaultSnapshot == CHOOSE s \in PollSnapshots : s.FiveHour.Utilisation = 20
FetchOutcomes == {"fresh", "transient", "permanent", "noclient"}

\* the log as the program finds it: no files, or one event at the start
PollLogs ==
    {<<>>,
     <<[id                  |-> 1,
        Timestamp           |-> 0,
        InputTokens         |-> LoggedUsage.InputTokens,
        OutputTokens        |-> LoggedUsage.OutputTokens,
        CacheCreationTokens |-> LoggedUsage.CacheCreationTokens,
        CacheReadTokens     |-> LoggedUsage.CacheReadTokens,
        CostUSD             |-> LoggedUsage.CostUSD]>>}

\* the fields of *model that the command's function reads
Captured(model) ==
    [oauthDisabled   |-> model.oauthDisabled,
     oauthData       |-> model.oauthData,
     lastRefresh     |-> model.lastRefresh,
     lastOAuthFetch  |-> model.lastOAuthFetch,
     lastWeeklyFetch |-> model.lastWeeklyFetch]

\* loadDataCmdWithModel(m.config, &m) at the end of a handler that started
\* from the model before and leaves the model as model: the command keeps
\* the pointer and the value of forceRefresh.  The other fields record
\* the cycle: who issued it and when, the last tick time and the force
\* flag the handler found, whether a transient failure had been handled
\* before, and whether 15 minutes had passed since the last successful
\* fetch.
NewCommand(by, before, model) ==
    [by           |-> by,
     issuedAt     |-> now,
     lastTickTime |-> before.lastTickTime,
     pending      |-> before.forceRefresh,
     retry        |-> history.transient,
     due          |-> /\ history.lastSuccess # ZeroTime
                      /\ now - history.lastSuccess >= WeeklyRefreshTime,
     model        |-> <<Captured(model)>>,
     forceRefresh |-> model.forceRefresh,
     state        |-> "issued",
     ranAt        |-> ZeroTime,
     stopped      |-> FALSE,
     fetch        |-> "none",
     msg          |-> Nil]

\* loadDataCmd(m.config) of AppModel.Init
InitialCommand(model) ==
    [by           |-> "init",
     issuedAt     |-> 0,
     lastTickTime |-> ZeroTime,
     pending      |-> FALSE,
     retry        |-> FALSE,
     due          |-> FALSE,
     model        |-> Nil,
     forceRefresh |-> FALSE,
     state        |-> "issued",
     ranAt        |-> ZeroTime,
     stopped      |-> FALSE,
     fetch        |-> "none",
     msg          |-> Nil]

\* `return m, loadDataCmdWithModel(m.config, &m)` where the handler has
\* brought its m to model.  The call clears forceRefresh in m; Go leaves
\* open whether the returned m is read before or after the call.
Issue(by, model, returnedBeforeClear) ==
    /\ history.issued < MaxCycles
    /\ Len(cmds) < MaxInFlight
    /\ returnedBeforeClear => model.forceRefresh
    /\ cmds' = Append(cmds, NewCommand(by, m, model))
    /\ m' = IF returnedBeforeClear THEN model
            ELSE [model EXCEPT !.forceRefresh = FALSE]
    /\ history' = [history EXCEPT !.issued = @ + 1]
    /\ UNCHANGED <<srvVars, pc, now, entries, sessions, forecast, resp, view>>

\* Update on a tickMsg carrying the current time; the timer was set
\* refreshRate before
Tick(returnedBeforeClear) ==
    /\ SinceAtLeast(m.lastTickTime, m.refreshRate, now)
    /\ m.lastTickTime = ZeroTime => now >= m.refreshRate
    /\ Issue("tick",
             [m EXCEPT !.forceRefresh =
                           @ \/ TimeJump(m.lastTickTime, now, m.refreshRate),
                       !.lastTickTime = now],
             returnedBeforeClear)

\* Update on a tea.FocusMsg
Focus(returnedBeforeClear) ==
    Issue("focus", [m EXCEPT !.forceRefresh = TRUE], returnedBeforeClear)

\* cmds without its i-th element
Remove(seq, i) == SubSeq(seq, 1, i - 1) \o SubSeq(seq, i + 1, Len(seq))

\* data.LoadUsageData: an error when there are no log files
LoadUsageData(log) == [entries |-> log, err |-> log = <<>>]

\* The function of command i runs in its goroutine at the current time:
\* outcome and snapshot are what the fetch gives if one is made.
\* oauth.IsAvailable answers as it did when the program started.
RunLoad(i, outcome, snapshot) ==
    /\ i \in 1..Len(cmds)
    /\ cmds[i].state = "issued"
    /\ LET loaded == LoadUsageData(entries)
           fetching == shouldFetchOAuth(m.oauthEnabled, cmds[i].model,
                                        cmds[i].forceRefresh, now)
           oauthPart == IF fetching THEN FetchResult(outcome, snapshot)
                        ELSE CachedResult(cmds[i].model)
       IN  /\ ~fetching => outcome = "fresh"
           /\ outcome # "fresh" \/ ~fetching => snapshot = DefaultSnapshot
           /\ cmds' = [cmds EXCEPT ![i] =
                  [@ EXCEPT !.state = "ran",
                            !.ranAt = now,
                            !.stopped = m.oauthDisabled,
                            !.fetch = IF fetching THEN outcome ELSE "none",
                            !.msg = <<[entries        |-> loaded.entries,
                                       err            |-> loaded.err,
                                       oauthData      |-> oauthPart.oauthData,
                                       oauthErr       |-> oauthPart.oauthErr,
                                       oauthDisabled  |-> oauthPart.oauthDisabled,
                                       oauthFreshData |-> oauthPart.oauthFreshData]>>]]
           /\ history' = IF fetching /\ outcome = "fresh"
                         THEN [history EXCEPT !.lastSuccess = now,
                                              !.lastContact = now]
                         ELSE IF fetching /\ outcome # "noclient"
                         THEN [history EXCEPT !.lastContact = now]
                         ELSE history
    /\ UNCHANGED <<srvVars, pc, now, entries, sessions, forecast, m, resp,
                   view>>

\* Update on the dataLoadedMsg of command i
Deliver(i) ==
    /\ i \in 1..Len(cmds)
    /\ cmds[i].state = "ran"
    /\ LET msg == cmds[i].msg[1]
           blocks == UpdateSessionCosts(
                         MarkActiveSessions(
                             CreateSessionBlocks(msg.entries), now), now)
       IN  /\ m' = UpdateDataLoaded(m, msg, blocks, now)
           /\ sessions' = IF msg.err THEN sessions ELSE blocks
           /\ history' = IF ~msg.err /\ msg.oauthErr /\ ~msg.oauthDisabled
                         THEN [history EXCEPT !.transient = TRUE]
                         ELSE history
    /\ cmds' = Remove(cmds, i)
    /\ UNCHANGED <<srvVars, pc, now, entries, forecast, resp, view>>

\* the clock moves on
Pass(t) ==
    /\ t > now
    /\ now' = t
    /\ UNCHANGED <<srvVars, cmdVars, pc, entries, sessions, forecast, m,
                   resp, view>>

InitPolling ==
    /\ pc = "input"
    /\ now = 0
    /\ entries \in PollLogs
    /\ sessions = <<>>
    /\ forecast = Nil
    /\ \E oauthAvailable \in BOOLEAN :
           m = WithOAuth(NewModel(PredefinedLimits.max5), oauthAvailable)
    /\ resp = Nil
    /\ view = Nil
    /\ srv = Nil
    /\ upd = Nil
    /\ reqs = Nil
    /\ cmds = <<InitialCommand(m)>>
    /\ history = [NoHistory EXCEPT !.issued = 1]

NextPolling(times) ==
    \/ \E b \in BOOLEAN : Tick(b)
    \/ \E b \in BOOLEAN : Focus(b)
    \/ \E i \in 1..MaxInFlight, outcome \in FetchOutcomes,
          o \in PollSnapshots :
           RunLoad(i, outcome, o)
    \/ \E i \in 1..MaxInFlight : Deliver(i)
    \/ \E t \in times : Pass(t)

SpecPolling == InitPolling /\ [][NextPolling(PollTimes)]_vars

SpecLongPolling == InitPolling /\ [][NextPolling(LongPollTimes)]_vars

----------------------------------------------------------------------------
(* Properties of the refresh cycles *)

Ran(c) == c.state = "ran"

\* the command was built from a model on which OAuth was not disabled
BuiltEnabled(c) == c.model = Nil \/ ~c.model[1].oauthDisabled

\* once OAuth is disabled no command makes a fetch, in flight or not
NoFetchOnceDisabled ==
    \A i \in 1..Len(cmds) :
        Ran(cmds[i]) /\ cmds[i].stopped => cmds[i].fetch = "none"

\* once OAuth is disabled the model holds no external data
DataStaysAbsent == m.oauthDisabled => m.oauthData = Nil

\* the windows of the model are those of the log at the last refresh
WindowsFollowLog ==
    m.lastRefresh # ZeroTime =>
        sessions = UpdateSessionCosts(
                       MarkActiveSessions(CreateSessionBlocks(entries),
                                          m.lastRefresh), m.lastRefresh)

\* C17: after a fetch has failed permanently and OAuth is disabled, no
\* refresh cycle makes another fetch, loads already in flight included;
\* the cached external data is cleared and stays absent; the windows keep
\* being computed from the events.
C17_PollingStops ==
    /\ NoFetchOnceDisabled
    /\ DataStaysAbsent
    /\ WindowsFollowLog

\* what holds: a cycle issued once OAuth is disabled makes no fetch, and
\* the windows keep being computed
C17_LaterCyclesStop ==
    /\ \A i \in 1..Len(cmds) :
           Ran(cmds[i]) /\ ~BuiltEnabled(cmds[i]) => cmds[i].fetch = "none"
    /\ WindowsFollowLog

\* OAuth is disabled and the model shows external data again
C17_Restored == m.oauthDisabled /\ m.oauthData # Nil

\* the message of a transient failure is handled
TransientDelivery(i) ==
    /\ i \in 1..Len(cmds)
    /\ Ran(cmds[i])
    /\ cmds[i].fetch = "transient"
    /\ cmds' = Remove(cmds, i)

TransientLeavesOAuthState ==
    \A i \in 1..MaxInFlight :
        TransientDelivery(i) =>
            /\ m'.oauthData = m.oauthData
            /\ m'.oauthDisabled = m.oauthDisabled
            /\ m'.lastOAuthFetch = m.lastOAuthFetch
            /\ m'.lastWeeklyFetch = m.lastWeeklyFetch

\* a cycle issued after a transient failure fetches again as soon as the
\* cache time has passed since the last fetch its model records
RetriedLater ==
    \A i \in 1..Len(cmds) :
        LET c == cmds[i]
        IN  /\ Ran(c)
            /\ c.retry
            /\ m.oauthEnabled
            /\ BuiltEnabled(c)
            /\ c.model # Nil
            /\ \/ c.model[1].lastOAuthFetch = ZeroTime
               \/ c.ranAt - c.model[1].lastOAuthFetch >= OAuthCacheTime
            => c.fetch # "none"

\* C18: handling a transient failure leaves the cached external data, the
\* disabled flag and the two fetch timestamps as they were, and a later
\* refresh cycle attempts the fetch again.
C18_TransientIsInvisible ==
    [][TransientLeavesOAuthState]_vars /\ []RetriedLater

\* a transient failure has been handled, the data cached before it is
\* still there, and a cycle issued afterwards has fetched again
C18_Witness ==
    /\ history.transient
    /\ m.oauthData # Nil
    /\ ~m.oauthDisabled
    /\ \E i \in 1..Len(cmds) :
           Ran(cmds[i]) /\ cmds[i].retry /\ cmds[i].fetch # "none"

C19_SinceStored ==
    \A i \in 1..Len(cmds) :
        LET c == cmds[i]
        IN  /\ Ran(c) /\ m.oauthEnabled /\ BuiltEnabled(c)
            /\ c.model # Nil
            /\ c.model[1].lastWeeklyFetch # ZeroTime
            /\ c.ranAt - c.model[1].lastWeeklyFetch >= WeeklyRefreshTime
            => c.fetch # "none"

\* the tick came more than twice the refresh rate after the one before
Jumped(c) ==
    /\ c.lastTickTime # ZeroTime
    /\ c.issuedAt - c.lastTickTime > 2 * m.refreshRate

\* C20: the load of a tick is forced, and so fetches whatever the cache
\* holds, when a previous tick is recorded and more than twice the refresh
\* rate has passed since; otherwise the tick leaves the force flag as it
\* found it.
C20_TimeJumpForcesRefresh ==
    \A i \in 1..Len(cmds) :
        LET c == cmds[i]
        IN  c.by = "tick" =>
                IF Jumped(c)
                THEN /\ c.forceRefresh
                     /\ Ran(c) /\ m.oauthEnabled /\ BuiltEnabled(c)
                            => c.fetch # "none"
                ELSE c.forceRefresh = c.pending

\* a tick three refresh rates after the one before has fetched although
\* the model it was built from had fetched at that very instant
C20_Witness ==
    \E i \in 1..Len(cmds) :
        LET c == cmds[i]
        IN  /\ c.by = "tick" /\ Jumped(c) /\ ~c.pending
            /\ Ran(c) /\ c.fetch = "fresh"
            /\ c.model[1].lastOAuthFetch = c.ranAt
            /\ c.model[1].oauthData # Nil

----------------------------------------------------------------------------
(* Further properties of the windower and the activity classifier *)

\* C23: every non-gap window starts at the timestamp of its first event
\* floored to the hour and ends 5 hours later, and, the input being sorted
\* ascending, every event e of the window has start <= e.timestamp < end.
C23_WindowBounds ==
    pc = "done" =>
        \A i \in 1..Len(sessions) :
            ~sessions[i].IsGap =>
                LET w == sessions[i]
                IN  /\ Len(w.Entries) > 0
                    /\ w.StartTime = w.Entries[1].Timestamp
                                        - (w.Entries[1].Timestamp % Hour)
                    /\ w.EndTime = w.StartTime + 5 * Hour
                    /\ \A j \in 1..Len(w.Entries) :
                           /\ w.StartTime <= w.Entries[j].Timestamp
                           /\ w.Entries[j].Timestamp < w.EndTime

\* an event off the hour opens a window on the hour before it, a later event
\* joins it, and an event at exactly the window's end opens the next window
\* at its own timestamp
C23_Witness ==
    /\ pc = "done"
    /\ Len(entries) = 3
    /\ Len(sessions) = 2
    /\ entries[1].Timestamp % Hour # 0
    /\ sessions[1].StartTime < entries[1].Timestamp
    /\ Len(sessions[1].Entries) = 2
    /\ entries[3].Timestamp = sessions[1].EndTime
    /\ sessions[2].StartTime = entries[3].Timestamp

\* C24: after MarkActiveSessions(blocks, now) a non-gap window is marked
\* active iff start < now < end, both comparisons strict, and a gap window
\* is never marked active.
C24_StrictlyInside ==
    pc = "marked" =>
        \A i \in 1..Len(sessions) :
            /\ sessions[i].IsGap => ~sessions[i].IsActive
            /\ ~sessions[i].IsGap =>
                   (sessions[i].IsActive <=>
                        (sessions[i].StartTime < now /\ now < sessions[i].EndTime))

\* a gap window was emitted, the clock stands exactly at the start of the
\* last window (and at the gap's end), and nothing is marked active
C24_Witness ==
    /\ pc = "marked"
    /\ Len(sessions) = 3
    /\ sessions[1].IsGap
    /\ now = sessions[1].EndTime
    /\ now = sessions[3].StartTime
    /\ \A i \in 1..3 : ~sessions[i].IsActive

\* the gap window at position i stands between the window that precedes the
\* silence and the window that follows it
GapBetween(i) ==
    /\ 1 < i /\ i < Len(sessions)
    /\ ~sessions[i - 1].IsGap /\ sessions[i - 1].EndTime = sessions[i].StartTime
    /\ ~sessions[i + 1].IsGap
    /\ sessions[i + 1].Entries[1].Timestamp = sessions[i].EndTime

\* the gap window at position i stands in front of the window that precedes
\* the silence, which is followed by the window that follows the silence
GapInFront(i) ==
    /\ i + 2 <= Len(sessions)
    /\ ~sessions[i + 1].IsGap /\ sessions[i + 1].EndTime = sessions[i].StartTime
    /\ ~sessions[i + 2].IsGap
    /\ sessions[i + 2].Entries[1].Timestamp = sessions[i].EndTime

\* C25: the list returned by CreateSessionBlocks is ordered by ascending
\* start time, each gap window standing between the window that precedes
\* the silence and the window that follows it.
C25_AscendingStarts ==
    pc = "done" =>
        /\ \A i, j \in 1..Len(sessions) :
               i < j => sessions[i].StartTime < sessions[j].StartTime
        /\ \A i \in 1..Len(sessions) : sessions[i].IsGap => GapBetween(i)

\* what the returned list does satisfy: the non-gap windows are in ascending
\* order of start, the last element is the latest non-gap window, and each
\* gap window stands immediately in front of the window whose end it
\* starts at
C25_GapInFrontOfClosed ==
    pc = "done" =>
        /\ \A i, j \in 1..Len(NonGap(sessions)) :
               i < j => NonGap(sessions)[i].StartTime < NonGap(sessions)[j].StartTime
        /\ Len(sessions) > 0 => ~sessions[Len(sessions)].IsGap
        /\ \A i \in 1..Len(sessions) : sessions[i].IsGap => GapInFront(i)

\* a list with a gap window, which starts later than the window after it
C25_OutOfOrder ==
    /\ pc = "done"
    /\ Len(sessions) = 3
    /\ sessions[1].IsGap
    /\ sessions[1].StartTime > sessions[2].StartTime

----------------------------------------------------------------------------
(* Successive refreshes of the application model as windows run out *)

\* instants around the start and the end of a window opened at 0, and one
\* more than GapThreshold after its end
MaxSessionEvents == 2
SessionTimes ==
    {0, Grain, SessionDuration, SessionDuration + Grain,
     2 * SessionDuration + Hour}

NextSessions ==
    \/ \E t \in SessionTimes : LogEvent(t, LoggedUsage, MaxSessionEvents)
    \/ \E t \in SessionTimes : DataLoaded(t, "cached", Nil)
    \/ \E t \in SessionTimes : Advance(t)

SpecSessions == InitWindower /\ [][NextSessions]_vars

\* GetActiveSession(sessions) if there is one, else GetMostRecentSession(sessions)
ActiveOrMostRecent(blocks) ==
    IF FirstActive(blocks, 1) # Nil THEN FirstActive(blocks, 1)
    ELSE LastNonGap(blocks, Len(blocks))

\* C27: after every SetData the model's current session is the active
\* non-gap window of the new session list if there is one, otherwise the most
\* recent non-gap window of the new list (nil if it has none): never a window
\* of an earlier refresh.
C27_CurrentFromNewList ==
    pc = "loaded" => m.currentSession = ActiveOrMostRecent(sessions)

\* what SetData does establish: the current session is the active window of
\* the new list if there is one; without one it is the most recent window of
\* the new list only when no current session was set before, and otherwise
\* stays the window an earlier refresh chose
C27_KeptWithoutActive ==
    [][pc' = "loaded" /\ m'.lastRefresh = now' /\ sessions' # sessions =>
          m'.currentSession =
              IF FirstActive(sessions', 1) # Nil THEN FirstActive(sessions', 1)
              ELSE IF m.currentSession = Nil
              THEN LastNonGap(sessions', Len(sessions'))
              ELSE m.currentSession]_vars

\* a refresh after the window ran out: the new list's window is not active
\* and has its actual end set, the current session is still the block of the
\* earlier refresh, marked active
C27_StaleSession ==
    /\ pc = "loaded"
    /\ Len(sessions) = 1
    /\ ~sessions[1].IsActive
    /\ sessions[1].ActualEndTime # Nil
    /\ m.currentSession # Nil
    /\ m.currentSession[1].IsActive
    /\ m.currentSession[1].ActualEndTime = Nil
    /\ m.lastRefresh = now

----------------------------------------------------------------------------
(* Load errors and later refreshes *)

\* this step is Update on a dataLoadedMsg without err, handled at a later
\* instant than the last one (or the first one handled)
SuccessfulLoad ==
    /\ pc' = "loaded"
    /\ m'.lastRefresh = now'
    /\ m'.lastRefresh # m.lastRefresh

\* C26: a data-load error is not permanent: when a refresh cycle has failed
\* to load data and a later cycle loads data successfully, the error state
\* is cleared and the view shows the dashboard again, not the error.
C26_ErrorCleared ==
    [][m.err /\ SuccessfulLoad =>
          /\ ~m'.err
          /\ View(m', sessions', now').Kind # "error"]_vars

\* what the code does: nothing resets err, so from the first failed load on
\* every view is the error view, whatever is loaded afterwards
C26_ErrorSticks ==
    [][m.err => m'.err /\ View(m', sessions', now').Kind = "error"]_vars

\* fresh data stands in the model, loaded at this instant, and the view
\* rendered from it is the error
C26_ErrorOverData ==
    /\ pc = "loaded"
    /\ m.err
    /\ m.lastRefresh = now
    /\ now > 0
    /\ Len(m.entries) > 0
    /\ view # Nil
    /\ view[1].Kind = "error"

----------------------------------------------------------------------------
(* The allowlist and its invalid entries *)

\* an allowlist is configured: APIConfig.AllowedCIDRs is not empty
AllowlistConfigured == Len(srv.config.AllowedCIDRs) > 0

\* C29: if an IP allowlist is configured (AllowedCIDRs non-empty) the server
\* never answers 200 with the snapshot to a remote address that lies outside
\* every valid configured CIDR, whether or not some of the configured
\* entries are invalid and ignored.
C29_AllowlistNeverBypassed ==
    \A r \in Requests :
        AllowlistConfigured /\ Answered(r) /\ reqs[r].status = 200 =>
            RemoteAllowed(r)

\* what the server does enforce: when at least one configured entry is a
\* valid CIDR, no address outside the valid entries is served the snapshot,
\* whatever invalid entries stand next to them
C29_EnforcedWithAValidEntry ==
    \A r \in Requests :
        AllowlistInForce /\ Answered(r) /\ reqs[r].status = 200 =>
            RemoteAllowed(r)

\* the configured allowlist holds invalid entries only, and a request from
\* an address no entry covers was answered with the snapshot
C29_ServedOutsideAllowlist ==
    \E r \in Requests :
        /\ AllowlistConfigured
        /\ ~AllowlistInForce
        /\ Answered(r) /\ reqs[r].status = 200
        /\ ~RemoteAllowed(r)

\* a valid entry stands next to invalid ones, a request from outside it was
\* refused and one from inside it was served
C29_MixedListEnforced ==
    /\ AllowlistInForce
    /\ \E i \in 1..Len(srv.config.AllowedCIDRs) :
           Covered(srv.config.AllowedCIDRs[i]) = {}
    /\ \E r1, r2 \in Requests :
           /\ Answered(r1) /\ reqs[r1].status = 403 /\ ~RemoteAllowed(r1)
           /\ Answered(r2) /\ reqs[r2].status = 200 /\ RemoteAllowed(r2)

----------------------------------------------------------------------------
(* Manual refreshes (internal/app/app.go) *)

\* 1 << level
Shl(level) == 2 ^ level

\* CheckManualRefreshRateLimit with the backoff doubling on every refresh
CheckManualRefreshRateLimitSteep(model, t) ==
    LET count == IF /\ model.lastManualRefresh # ZeroTime
                    /\ t - model.lastManualRefresh >= 30
                 THEN 0 ELSE model.manualRefreshCount
        level == count
        requiredInterval == IF Shl(level) > 60 THEN 60 ELSE Shl(level)
        elapsed == t - model.lastManualRefresh
    IN  [count   |-> count,
         allowed |-> ~(model.lastManualRefresh # ZeroTime
                          /\ elapsed < requiredInterval),
         wait    |-> requiredInterval - elapsed]

\* AppModel.CheckManualRefreshRateLimit at instant t, in seconds: the count
\* it leaves in the model, whether the refresh is allowed, and how long to
\* wait when it is not
CheckManualRefreshRateLimit(model, t) ==
    LET count == IF /\ model.lastManualRefresh # ZeroTime
                    /\ t - model.lastManualRefresh >= 30
                 THEN 0 ELSE model.manualRefreshCount
        level == count \div 2
        requiredInterval == IF Shl(level) > 60 THEN 60 ELSE Shl(level)
        elapsed == t - model.lastManualRefresh
    IN  [count   |-> count,
         allowed |-> ~(model.lastManualRefresh # ZeroTime
                          /\ elapsed < requiredInterval),
         wait    |-> requiredInterval - elapsed]

\* AppModel.RecordManualRefresh, called on the model the check left
RecordManualRefresh(model, t) ==
    LET count == IF /\ model.lastManualRefresh # ZeroTime
                    /\ t - model.lastManualRefresh >= 30
                 THEN 0 ELSE model.manualRefreshCount
    IN  [model EXCEPT !.lastManualRefresh = t,
                      !.manualRefreshCount = count + 1]

\* AppModel.SetRateLimitWarning: the message names the seconds to wait
SetRateLimitWarning(model, wait, duration, t) ==
    [model EXCEPT !.rateLimitWarning = <<wait>>,
                  !.rateLimitWarningExpiry = t + duration]

\* the manual refreshes of one run, and the instants at which keys are
\* pressed: each required interval of the ladder, the second before it, and
\* the 30 seconds of the reset
MaxManualRefreshes == 12
ManualInFlight == 1
ManualTimes ==
    {0, 1, 2, 3, 5, 8, 9, 12, 13, 20, 21, 28, 29, 44, 45, 60, 61, 90, 91, 92}

\* Update on the key " " or "r"
KeyRefresh(returnedBeforeClear) ==
    LET check == CheckManualRefreshRateLimit(m, now)
        checked == [m EXCEPT !.manualRefreshCount = check.count]
    IN  IF ~check.allowed
        THEN /\ ~returnedBeforeClear
             /\ m' = SetRateLimitWarning(checked, check.wait, 2, now)
             /\ UNCHANGED <<srvVars, cmdVars, pc, now, entries, sessions,
                            forecast, resp, view>>
        ELSE LET model == [RecordManualRefresh(checked, now)
                               EXCEPT !.forceRefresh = TRUE]
             IN  /\ history.issued < MaxManualRefreshes
                 /\ Len(cmds) < ManualInFlight
                 /\ cmds' = Append(cmds, NewCommand("key", m, model))
                 /\ m' = IF returnedBeforeClear THEN model
                         ELSE [model EXCEPT !.forceRefresh = FALSE]
                 /\ history' = [history EXCEPT !.issued = @ + 1]
                 /\ UNCHANGED <<srvVars, pc, now, entries, sessions,
                                forecast, resp, view>>

InitManual ==
    /\ pc = "input"
    /\ now = 0
    /\ entries = <<>>
    /\ sessions = <<>>
    /\ forecast = Nil
    /\ m = NewModel(PredefinedLimits.max5)
    /\ resp = Nil
    /\ view = Nil
    /\ srv = Nil
    /\ upd = Nil
    /\ reqs = Nil
    /\ cmds = <<InitialCommand(m)>>
    /\ history = [NoHistory EXCEPT !.issued = 1]

NextManual ==
    \/ \E b \in BOOLEAN : KeyRefresh(b)
    \/ \E i \in 1..ManualInFlight : RunLoad(i, "fresh", DefaultSnapshot)
    \/ \E i \in 1..ManualInFlight : Deliver(i)
    \/ \E t \in ManualTimes : Pass(t)

SpecManual == InitManual /\ [][NextManual]_vars

\* the minimum spacing by the number of manual refreshes accepted since the
\* last reset: 1s, 1s, 2s, 2s, 4s, 4s, 8s, 8s, ..., capped at 60s
BackoffLadder == <<1, 1, 2, 2, 4, 4, 8, 8, 16, 16, 32, 32, 60, 60>>

\* the number of manual refreshes accepted since the last reset, as an
\* attempt at the current instant finds it: zero once 30 seconds have passed
\* without a manual refresh
AcceptedSinceReset ==
    IF m.lastManualRefresh # ZeroTime /\ now - m.lastManualRefresh >= 30
    THEN 0
    ELSE m.manualRefreshCount

\* this step is a key press that was accepted / that was rejected
ManualAccepted == m'.lastManualRefresh # m.lastManualRefresh
ManualRejected == m'.rateLimitWarningExpiry # m.rateLimitWarningExpiry

\* C21: manual refreshes are throttled with exponential backoff.  A key press
\* is accepted iff it is the first one or at least the ladder's spacing for
\* the number of refreshes accepted since the last reset (1s, 1s, 2s, 2s, 4s,
\* 4s, 8s, 8s, ... capped at 60s) has passed since the last accepted one; the
\* count is zero again after 30 seconds without a manual refresh; an accepted
\* press starts one load and counts one more; a rejected press starts no
\* load and leaves the backoff state as it was.
C21_ExponentialBackoff ==
    [][/\ ManualAccepted =>
              /\ m.lastManualRefresh # ZeroTime =>
                     now - m.lastManualRefresh
                         >= BackoffLadder[AcceptedSinceReset + 1]
              /\ m'.lastManualRefresh = now
              /\ m'.manualRefreshCount = AcceptedSinceReset + 1
              /\ Len(cmds') = Len(cmds) + 1
       /\ ManualRejected =>
              /\ m.lastManualRefresh # ZeroTime
              /\ now - m.lastManualRefresh
                     < BackoffLadder[AcceptedSinceReset + 1]
              /\ cmds' = cmds
              /\ m'.lastManualRefresh = m.lastManualRefresh
              /\ m'.manualRefreshCount = m.manualRefreshCount
              /\ m'.forceRefresh = m.forceRefresh]_vars

\* ten refreshes were accepted at the ladder's pace (the last one 16 seconds
\* after the one before), a press 29 seconds later has just been rejected
\* with 3 seconds left to wait, and no load is in flight
C21_Witness ==
    /\ m.manualRefreshCount = 10
    /\ m.lastManualRefresh = 61
    /\ now = 90
    /\ m.rateLimitWarning = <<3>>
    /\ m.rateLimitWarningExpiry = 92
    /\ cmds = <<>>

\* the count never passes 10: from there on the required 32 seconds exceed
\* the 30 seconds of the reset, so the levels of 32s and 60s never decide
ManualCountBounded == m.manualRefreshCount <= 10

\* after the reset the press at 91 is accepted and counts as the first
ManualResetReached ==
    /\ m.lastManualRefresh = 91
    /\ m.manualRefreshCount = 1
    /\ history.issued = 12

----------------------------------------------------------------------------
(* Refresh cycles faster than the OAuth cache time *)

\* -refresh 10: a configured rate is kept as it is (NewModel only replaces
\* the default of 30 seconds), and the instants of the first ticks
FastRefreshRate == 10
FastPollTimes == {0, FastRefreshRate, 2 * FastRefreshRate}

InitFastPolling ==
    /\ pc = "input"
    /\ now = 0
    /\ entries \in PollLogs
    /\ sessions = <<>>
    /\ forecast = Nil
    /\ m = [WithOAuth(NewModel(PredefinedLimits.max5), TRUE)
                EXCEPT !.refreshRate = FastRefreshRate]
    /\ resp = Nil
    /\ view = Nil
    /\ srv = Nil
    /\ upd = Nil
    /\ reqs = Nil
    /\ cmds = <<InitialCommand(m)>>
    /\ history = [NoHistory EXCEPT !.issued = 1]

SpecFastPolling == InitFastPolling /\ [][NextPolling(FastPollTimes)]_vars

\* this step runs the function of command i, built with a model context
\* while OAuth was available and not disabled
RunsWithContext(i) ==
    /\ Len(cmds') = Len(cmds)
    /\ cmds[i].state = "issued"
    /\ cmds'[i].state = "ran"
    /\ cmds[i].model # Nil
    /\ m.oauthEnabled
    /\ ~cmds[i].model[1].oauthDisabled

\* 15 minutes have passed since the last weekly fetch the command knows of
WeeklyDue(c) ==
    /\ c.model[1].lastWeeklyFetch # ZeroTime
    /\ now - c.model[1].lastWeeklyFetch >= 15 * Minute

\* the usage API has not been contacted in the last 60 seconds
NotContactedLately ==
    history.lastContact = ZeroTime \/ now - history.lastContact >= 60

\* the command knows of no fetch stored in the last 60 seconds
NoFetchStoredLately(c) ==
    \/ c.model[1].lastOAuthFetch = ZeroTime
    \/ now - c.model[1].lastOAuthFetch >= 60

\* C28: when OAuth is available and enabled and a model context exists, a
\* refresh cycle performs a network fetch only if force refresh is set, the
\* cached session is stale, 15 minutes have passed since the last weekly
\* fetch, or the external API has not been fetched in the last 60 seconds;
\* otherwise it reuses the cached data.  Absent force and staleness, the
\* API is thus contacted at most once per 60 seconds.
C28_FetchOnlyWhenDue ==
    [][\A i \in 1..Len(cmds) :
          RunsWithContext(i) =>
              /\ cmds'[i].fetch # "none" =>
                     \/ cmds[i].forceRefresh
                     \/ isOAuthSessionStale(cmds[i].model, now)
                     \/ WeeklyDue(cmds[i])
                     \/ NotContactedLately
              /\ cmds'[i].fetch = "none" =>
                     cmds'[i].msg[1].oauthData = cmds[i].model[1].oauthData]_vars

\* what the cycles do keep to: a fetch is made only if force refresh is set,
\* the cached session is stale, 15 minutes have passed since the last weekly
\* fetch, or no successful fetch has been stored in the last 60 seconds in
\* the model the command was built from; otherwise the cached data is reused
C28_FetchOnlyWhenNoneStored ==
    [][\A i \in 1..Len(cmds) :
          RunsWithContext(i) =>
              /\ cmds'[i].fetch # "none" =>
                     \/ cmds[i].forceRefresh
                     \/ isOAuthSessionStale(cmds[i].model, now)
                     \/ WeeklyDue(cmds[i])
                     \/ NoFetchStoredLately(cmds[i])
              /\ cmds'[i].fetch = "none" =>
                     cmds'[i].msg[1].oauthData = cmds[i].model[1].oauthData]_vars

\* the first tick's cycle contacted the API again, 10 seconds after the
\* initial load's fetch had failed with a transient error: not forced, no
\* stale session, no weekly fetch due
C28_ContactedAgain ==
    /\ now = FastRefreshRate
    /\ history.lastContact = FastRefreshRate
    /\ history.transient
    /\ Len(cmds) = 1
    /\ cmds[1].by = "tick"
    /\ cmds[1].retry
    /\ cmds[1].state = "ran"
    /\ cmds[1].fetch # "none"
    /\ ~cmds[1].forceRefresh
    /\ ~isOAuthSessionStale(cmds[1].model, now)
    /\ ~WeeklyDue(cmds[1])

----------------------------------------------------------------------------
(* The tick chain (internal/app/app.go): timers next to the load commands *)

\* tickCmd(interval): a tea.Tick timer, "pending" until it fires and "fired"
\* while its tickMsg waits to be handled
tickCmd(interval) == [by |-> "timer", state |-> "pending", interval |-> interval]

\* the timers and tick messages among the commands, and the loads
Timers(cs) == SelectSeq(cs, LAMBDA c : c.by = "timer")
Loads(cs) == SelectSeq(cs, LAMBDA c : c.by # "timer")

\* the commands a tickMsg handler that schedules no next tick returns
TickBatchWithoutTick(load, interval) == <<load>>

\* tea.Batch(loadDataCmdWithModel(m.config, &m), tickCmd(m.config.RefreshRate))
TickBatch(load, interval) == <<load, tickCmd(interval)>>

\* the instants of the tick chain
TickTimes == {0, 60}

\* the loads in flight next to the timer
TickInFlight == 1

\* the timer of command i fires: the runtime sends tickMsg(now)
TimerFires(i) ==
    /\ i \in 1..Len(cmds)
    /\ cmds[i].by = "timer"
    /\ cmds[i].state = "pending"
    /\ cmds' = [cmds EXCEPT ![i].state = "fired"]
    /\ UNCHANGED <<srvVars, history, pc, now, entries, sessions, forecast, m,
                   resp, view>>

\* Update on the tickMsg of timer i
HandleTick(i, returnedBeforeClear) ==
    /\ i \in 1..Len(cmds)
    /\ cmds[i].by = "timer"
    /\ cmds[i].state = "fired"
    /\ Len(Loads(cmds)) < TickInFlight
    /\ LET model == [m EXCEPT !.forceRefresh =
                                  @ \/ TimeJump(m.lastTickTime, now,
                                                m.refreshRate),
                              !.lastTickTime = now]
       IN  /\ returnedBeforeClear => model.forceRefresh
           /\ cmds' = Remove(cmds, i)
                          \o TickBatch(NewCommand("tick", m, model),
                                       m.refreshRate)
           /\ m' = IF returnedBeforeClear THEN model
                   ELSE [model EXCEPT !.forceRefresh = FALSE]
    /\ history' = [history EXCEPT !.issued =
                                      IF @ < MaxCycles THEN @ + 1 ELSE @]
    /\ UNCHANGED <<srvVars, pc, now, entries, sessions, forecast, resp, view>>

\* Update on a tea.FocusMsg or on the key "r", the first manual refresh
HandleRefresh(by, returnedBeforeClear) ==
    /\ by = "key" => m.lastManualRefresh = ZeroTime
    /\ Len(Loads(cmds)) < TickInFlight
    /\ history.issued < MaxCycles
    /\ LET model == IF by = "key"
                    THEN [RecordManualRefresh(m, now)
                              EXCEPT !.forceRefresh = TRUE]
                    ELSE [m EXCEPT !.forceRefresh = TRUE]
       IN  /\ cmds' = Append(cmds, NewCommand(by, m, model))
           /\ m' = IF returnedBeforeClear THEN model
                   ELSE [model EXCEPT !.forceRefresh = FALSE]
    /\ history' = [history EXCEPT !.issued = @ + 1]
    /\ UNCHANGED <<srvVars, pc, now, entries, sessions, forecast, resp, view>>

\* AppModel.Init: tea.Batch(m.spinner.Tick, loadDataCmd(m.config),
\* tickCmd(m.config.RefreshRate)); the spinner's own ticks are left out
InitTicks ==
    /\ pc = "input"
    /\ now = 0
    /\ entries \in PollLogs
    /\ sessions = <<>>
    /\ forecast = Nil
    /\ \E oauthAvailable \in BOOLEAN :
           m = WithOAuth(NewModel(PredefinedLimits.max5), oauthAvailable)
    /\ resp = Nil
    /\ view = Nil
    /\ srv = Nil
    /\ upd = Nil
    /\ reqs = Nil
    /\ cmds = <<InitialCommand(m), tickCmd(m.refreshRate)>>
    /\ history = [NoHistory EXCEPT !.issued = 1]

MaxPending == TickInFlight + 1

NextTicks ==
    \/ \E i \in 1..MaxPending : TimerFires(i)
    \/ \E i \in 1..MaxPending, b \in BOOLEAN : HandleTick(i, b)
    \/ \E by \in {"focus", "key"}, b \in BOOLEAN : HandleRefresh(by, b)
    \/ \E i \in 1..MaxPending, outcome \in FetchOutcomes :
           RunLoad(i, outcome, DefaultSnapshot)
    \/ \E i \in 1..MaxPending : Deliver(i)
    \/ \E t \in TickTimes : Pass(t)

SpecTicks == InitTicks /\ [][NextTicks]_vars

\* Update takes the dataLoadedMsg of command i off the queue: what a
\* Deliver(i) step does to cmds
Handled(i) ==
    /\ i \in 1..Len(cmds)
    /\ cmds[i].state = "ran"
    /\ cmds' = Remove(cmds, i)

\* a step of the runtime, or of Update on a message the runtime delivers
RuntimeStep ==
    \/ \E i \in 1..MaxPending : TimerFires(i)
    \/ \E i \in 1..MaxPending, b \in BOOLEAN : HandleTick(i, b)
    \/ \E i \in 1..MaxPending, outcome \in FetchOutcomes :
           RunLoad(i, outcome, DefaultSnapshot)
    \/ \E i \in 1..MaxPending : Handled(i)

\* the runtime keeps going: it fires timers, runs commands and has Update
\* handle their messages as long as there are any.  Each of these steps
\* shows in cmds.
SpecTicksFair == SpecTicks /\ WF_cmds(RuntimeStep)

\* the ticks pending: timers set and tick messages not yet handled
PendingTicks == Len(Timers(cmds))

\* a timer is set / a tick message waits to be handled
TimerSet == \E i \in 1..Len(cmds) : cmds[i].by = "timer" /\ cmds[i].state = "pending"
TickWaiting == \E i \in 1..Len(cmds) : cmds[i].by = "timer" /\ cmds[i].state = "fired"

-----------------------------------------------------------------------------
(* The refresh computation run again on the same inputs *)

\* instants inside a window opened at 0, and one after its end
MaxRefreshEvents == 2
RefreshTimes == {0, Grain, Hour, 2 * Hour, SessionDuration + Hour}

\* the window, activity and cost pipeline of a refresh: t is the now its
\* caller hands to MarkActiveSessions, clock is what time.Now() returns
\* inside UpdateSessionCosts
RefreshPipeline(log, t, clock) ==
    UpdateSessionCosts(MarkActiveSessions(CreateSessionBlocks(log), t), clock)

\* one run of the pipeline on the event list with the now t, while the wall
\* clock reads clock; the clock is read after t was taken
Refresh(t, clock) ==
    /\ pc \in {"input", "done"}
    /\ t >= LastTimestamp
    /\ clock >= t
    /\ now' = t
    /\ sessions' = RefreshPipeline(entries, t, clock)
    /\ pc' = "done"
    /\ UNCHANGED <<srvVars, cmdVars, entries, forecast, appVars>>

NextRefresh ==
    \/ \E t \in RefreshTimes : LogEvent(t, LoggedUsage, MaxRefreshEvents)
    \/ \E t, clock \in RefreshTimes : Refresh(t, clock)

SpecRefresh == InitWindower /\ [][NextRefresh]_vars

\* a second run on the inputs of the run before: the event list is fixed
\* once the first run is done, and the now is the same
Rerun == pc = "done" /\ pc' = "done" /\ now' = now

\* the windows without the one field computed from the wall clock
WithoutBurnRate(blocks) ==
    [i \in 1..Len(blocks) |-> [blocks[i] EXCEPT !.CostBurnRate = Zero]]

\* C22: a refresh computation is deterministic and side-effect free: running
\* the window, activity and cost pipeline twice on the same event list and
\* the same now yields identical output, every time-dependent result
\* depending only on the supplied now.
C22_SameInputsSameOutput == [][Rerun => sessions' = sessions]_vars

\* what does hold: the two outputs agree in everything but CostBurnRate
C22_SameButBurnRate ==
    [][Rerun => WithoutBurnRate(sessions') = WithoutBurnRate(sessions)]_vars

\* a run whose cost burn rate was computed for an instant other than its now
C22_BurnRateOffNow ==
    /\ pc = "done"
    /\ sessions # RefreshPipeline(entries, now, now)

====
